---- MODULE Spec2Model ----
(***************************************************************************)
(* CommitLog of rocketmq-store (src/rocketmq-store/src/log_file/           *)
(* commit_log.rs): the append path put_message, run by concurrent writers  *)
(* on clones of one CommitLog, and the recovery walk recover_normally.     *)
(***************************************************************************)
EXTENDS Integers, Sequences, FiniteSets, TLC

(***************************************************************************)
(* Configuration and bounds                                                *)
(***************************************************************************)

\* message_store_config.mapped_file_size_commit_log (the spec's scenarios use 1024)
FileSize == 1024

\* message_store_config.max_message_size, the encoder's cap (<= FileSize)
MaxMessageSize == 512

\* number of put_message calls started in one behaviour
MaxPuts == 2

\* the tasks calling put_message, each on its own clone of the CommitLog
Writers == {"w1", "w2"}

\* the "topic-queueId" keys of generate_key
Queues == {"TopicA-0", "TopicB-0"}

\* topic_config_table: the keys whose topic is configured as a batch consume queue
BatchCQ == {"TopicB-0"}

\* MessageSysFlag::get_transaction_value
TranTypes == {"TRANSACTION_NOT_TYPE", "TRANSACTION_PREPARED_TYPE",
              "TRANSACTION_COMMIT_TYPE", "TRANSACTION_ROLLBACK_TYPE"}

\* number of segments in a loaded commit log directory
MaxFiles == 2

\* number of recovery runs in one behaviour
MaxRuns == 2

\* number of segments in the directories the start of the scan is checked on
MaxScanFiles == 5

\* number of times the clock moves on in one behaviour
MaxTicks == 2

\* time_utils::get_current_millis() when the broker starts serving puts
StartTime == 100

\* message_store_config.broker_role
BrokerRoles == {"AsyncMaster", "SyncMaster", "Slave"}

\* roll_next_file is called with every offset up to MaxOffset
MaxOffset == 40

\* Stands for 2^64 in the casts between i64 and u64 (as u64, as i64); every offset
\* of the model is far below it.
U64Modulus == 1048576

\* message_store_config (duplication_enable, broker_role, check_crc_on_recover,
\* force_verify_prop_crc, message_index_enable, message_index_safe) and
\* broker_config (duplication_enable, enable_controller_mode,
\* enable_slave_acting_master) of a broker in the default, non-duplication mode
DefaultConfig ==
    [duplication_enable |-> FALSE, broker_role |-> "AsyncMaster",
     check_crc_on_recover |-> TRUE, force_verify_prop_crc |-> FALSE,
     broker_duplication_enable |-> FALSE, enable_controller_mode |-> FALSE,
     enable_slave_acting_master |-> FALSE,
     message_index_enable |-> TRUE, message_index_safe |-> FALSE]

Configs == {DefaultConfig}

\* the configurations recovery is run under
RecoverConfigs ==
    { [DefaultConfig EXCEPT !.check_crc_on_recover = c] : c \in BOOLEAN }

(***************************************************************************)
(* Messages                                                                *)
(***************************************************************************)

\* the PROPERTY_INNER_NUM property: absent, a string that parses as i16, or one that does not
NoInnerNum == [present |-> FALSE, parses |-> FALSE, val |-> 0]
BadInnerNum == [present |-> TRUE, parses |-> FALSE, val |-> 0]
InnerNum(n) == [present |-> TRUE, parses |-> TRUE, val |-> n]

\* A producer message: its queue key, transaction type, the length of its encoded
\* frame, INNER_BATCH_FLAG, INNER_NUM, and what the append callback finds of its sizes.
\* Its properties are the INNER_NUM property alone, so is_wait_store_msg_ok is
\* the default of an absent WAIT property; store_timestamp is the time the
\* producer's broker stamped, StartTime, one instant later than every frame of
\* a directory.
Msg(key, tran, size, flag, num, verdict) ==
    [key |-> key, tran |-> tran, size |-> size, inner_batch_flag |-> flag,
     inner_num |-> num, verdict |-> verdict, queue_offset |-> 0,
     store_timestamp |-> StartTime, wait_store_msg_ok |-> TRUE]

Messages ==
    { Msg("TopicA-0", t, 300, FALSE, NoInnerNum, "PutOk") : t \in TranTypes }
    \cup { Msg("TopicA-0", "TRANSACTION_NOT_TYPE", 400, FALSE, NoInnerNum, "PutOk") }
    \cup { Msg("TopicA-0", "TRANSACTION_NOT_TYPE", 300, TRUE, n, "PutOk") :
              n \in {BadInnerNum, InnerNum(3)} }
    \cup { Msg("TopicA-0", "TRANSACTION_NOT_TYPE", 300, FALSE, InnerNum(5), "PutOk") }
    \cup { Msg("TopicB-0", "TRANSACTION_NOT_TYPE", 300, FALSE, n, "PutOk") :
              n \in {NoInnerNum, InnerNum(3), InnerNum(5)} }
    \cup { Msg("TopicB-0", "TRANSACTION_PREPARED_TYPE", 300, FALSE, InnerNum(3), "PutOk") }
    \cup { Msg("TopicA-0", "TRANSACTION_NOT_TYPE", 600, FALSE, NoInnerNum, "PutOk") }
    \cup { Msg("TopicA-0", "TRANSACTION_NOT_TYPE", 300, FALSE, NoInnerNum, v) :
              v \in {"MessageSizeExceeded", "PropertiesSizeExceeded"} }

(***************************************************************************)
(* State                                                                   *)
(***************************************************************************)

VARIABLES
    config,              \* message_store_config, fixed at construction
    mapped_file_queue,   \* the segment list, shared by the clones
    put_message_lock,    \* "free" or the writer holding the tokio mutex
    consume_queue_store, \* per-queue offset counter, shared by the clones
    writer,              \* per writer: the locals of its put_message call
    accepted,            \* history: the frames of the calls that got PutOk, in append order
    puts,                \* history: number of put_message calls started
    clock,               \* time_utils::get_current_millis()
    flushed_where,       \* mapped_file_queue.flushed_where
    committed_where,     \* mapped_file_queue.committed_where
    confirm_offset,      \* self.confirm_offset
    store_checkpoint,    \* the checkpoint's confirm_phy_offset
    dispatched,          \* the requests given to dispatcher.dispatch, in order
    cq_calls,            \* the calls made to the consume-queue store, in order
    rec,                 \* the locals of the recovery that runs or ran last
    loaded,              \* history: the segment list as load() left it
    call                 \* a call of a function of the codec: its arguments and result

putvars == <<put_message_lock, consume_queue_store, writer, accepted, puts, clock>>

recvars == <<flushed_where, committed_where, confirm_offset, store_checkpoint,
             dispatched, cq_calls, rec, loaded, call>>

vars == <<config, mapped_file_queue, putvars, recvars>>

(***************************************************************************)
(* Segments (MappedFile) and the segment list (MappedFileQueue)            *)
(***************************************************************************)

\* One record of a segment's bytes, by what the decoder reads of it: the stored
\* totalSize, the magic code, whether bodyLen > 0 and the body still has the stored
\* CRC, the length cal_msg_length computes from the stored lengths (the bytes a
\* full parse consumes), whether totalSize bytes reach past the body, whether
\* propertiesLength > 0, whether the topic bytes parse to a map with a well-formed
\* DUP_INFO, the properties the properties bytes hold (INNER_NUM, and whether
\* there is a DUP_INFO of the form a_b), and the fields a dispatch request carries.
Frame(m, physic_offset) ==
    [total_size |-> m.size, magic |-> "V1", has_body |-> TRUE, crc_ok |-> TRUE,
     read_length |-> m.size, buffer_holds_body |-> TRUE,
     has_properties |-> m.inner_num.present,
     dup_info_in_topic |-> FALSE, key |-> m.key, queue_offset |-> m.queue_offset,
     physic_offset |-> physic_offset, tran |-> m.tran,
     store_timestamp |-> m.store_timestamp, properties |-> m.inner_num,
     dup_info |-> FALSE]

\* the padding sentinel [max_blank][BLANK_MAGIC_CODE]
Blank(max_blank, physic_offset) ==
    [total_size |-> max_blank, magic |-> "BLANK", has_body |-> FALSE, crc_ok |-> TRUE,
     read_length |-> 0, buffer_holds_body |-> TRUE,
     has_properties |-> FALSE, dup_info_in_topic |-> FALSE,
     key |-> "", queue_offset |-> 0, physic_offset |-> physic_offset,
     tran |-> "TRANSACTION_NOT_TYPE", store_timestamp |-> 0,
     properties |-> NoInnerNum, dup_info |-> FALSE]

\* the bytes a record takes in its segment: a frame is laid out by its stored
\* lengths, a sentinel or a record of unknown magic is taken by its totalSize
Extent(e) == IF e.magic = "V1" THEN e.read_length ELSE e.total_size

RECURSIVE PosOf(_, _)
\* the position in the segment of the k-th record of data
PosOf(data, k) ==
    IF k = 1 THEN 0 ELSE PosOf(data, k - 1) + Extent(data[k - 1])

\* the record that starts at position pos; 0 where nothing was written (zero bytes)
EntryAt(data, pos) ==
    IF \E k \in 1..Len(data) : PosOf(data, k) = pos
    THEN CHOOSE k \in 1..Len(data) : PosOf(data, k) = pos
    ELSE 0

\* the records of data that start before position pos
Prefix(data, pos) ==
    SubSeq(data, 1, Cardinality({k \in 1..Len(data) : PosOf(data, k) < pos}))

NewMappedFile(file_from_offset) ==
    [file_from_offset |-> file_from_offset, wrote_position |-> 0,
     committed_position |-> 0, flushed_position |-> 0, data |-> <<>>]

is_full(f) == f.wrote_position = FileSize

\* get_last_mapped_file: the index of the last segment, 0 for None
get_last_mapped_file(q) == Len(q)

get_max_offset(q) ==
    IF Len(q) = 0 THEN 0
    ELSE q[Len(q)].file_from_offset + q[Len(q)].wrote_position

\* get_last_mapped_file_mut_start_offset(start_offset, need_create): the last
\* segment, or a new one at the next boundary when there is none or the last is
\* full; created says whether the allocation succeeds. Gives the list and the
\* index of the returned segment (0 for None).
get_last_mapped_file_mut_start_offset(q, start_offset, need_create, created) ==
    LET create_offset ==
            IF Len(q) = 0 THEN start_offset - (start_offset % FileSize)
            ELSE IF is_full(q[Len(q)]) THEN q[Len(q)].file_from_offset + FileSize
            ELSE -1
    IN  IF create_offset # -1 /\ need_create
        THEN IF created
             THEN [queue |-> Append(q, NewMappedFile(create_offset)), file |-> Len(q) + 1]
             ELSE [queue |-> q, file |-> 0]
        ELSE [queue |-> q, file |-> Len(q)]

\* DefaultAppendMessageCallback::do_append on a segment with max_blank bytes left:
\* the status, the bytes written and the record written (if any). fault is the
\* callback failing for a reason of its own (UnknownError).
do_append(file_from_offset, wrote_position, max_blank, m, fault) ==
    LET wrote_offset == file_from_offset + wrote_position
    IN  IF fault
        THEN [status |-> "UnknownError", wrote_offset |-> wrote_offset,
              wrote_bytes |-> 0, written |-> <<>>]
        ELSE IF m.verdict # "PutOk"
        THEN [status |-> m.verdict, wrote_offset |-> wrote_offset,
              wrote_bytes |-> 0, written |-> <<>>]
        ELSE IF max_blank < m.size
        THEN [status |-> "EndOfFile", wrote_offset |-> wrote_offset,
              wrote_bytes |-> max_blank, written |-> <<Blank(max_blank, wrote_offset)>>]
        ELSE [status |-> "PutOk", wrote_offset |-> wrote_offset,
              wrote_bytes |-> m.size, written |-> <<Frame(m, wrote_offset)>>]

\* MappedFile::append_message: the callback runs at wrote_position with the bytes
\* left in the segment, and the position advances by the bytes it wrote. Records
\* that a truncation left past wrote_position are overwritten (what is left of
\* them past the new record is taken as unwritten).
append_message(f, m, fault) ==
    LET r == do_append(f.file_from_offset, f.wrote_position,
                       FileSize - f.wrote_position, m, fault)
    IN  [file |-> [f EXCEPT !.wrote_position = @ + r.wrote_bytes,
                            !.data = Prefix(@, f.wrote_position) \o r.written],
         result |-> r]

(***************************************************************************)
(* put_message: helpers                                                    *)
(***************************************************************************)

\* MessageExtEncoder::encode as encode_message_ext uses it: Some(result) when
\* the frame exceeds the cap
encode_message_ext(m) ==
    IF m.size > MaxMessageSize THEN "MessageIllegal" ELSE "None"

get_cq_type(m) == IF m.key \in BatchCQ THEN "BatchCQ" ELSE "SimpleCQ"

get_message_num(m) ==
    IF m.inner_batch_flag \/ get_cq_type(m) = "BatchCQ"
    THEN IF m.inner_num.present
         THEN IF m.inner_num.parses THEN m.inner_num.val ELSE 1
         ELSE 1
    ELSE 1

\* mutant: the queue offset is assigned in every mode
need_assign_offset_Always(cfg) == TRUE

\* lines 278-279
need_assign_offset(cfg) ==
    ~(cfg.duplication_enable /\ cfg.broker_role # "Slave")

\* need_handle_ha (lines 410-427)
need_handle_ha(cfg, m) ==
    IF ~m.wait_store_msg_ok THEN FALSE
    ELSE IF cfg.duplication_enable THEN FALSE
    ELSE IF cfg.broker_role # "SyncMaster" THEN FALSE
    ELSE TRUE

\* lines 272-276: the two unimplemented!() of put_message
ha_unimplemented(cfg, m) ==
    \/ need_handle_ha(cfg, m) /\ cfg.enable_controller_mode
    \/ need_handle_ha(cfg, m) /\ cfg.enable_slave_acting_master

\* lines 225-227: the stamp before the lock
store_timestamp_before_lock(cfg, m, now) ==
    IF ~cfg.duplication_enable THEN [m EXCEPT !.store_timestamp = now] ELSE m

\* mutant: the message keeps the stamp it got before the lock
store_timestamp_under_lock_Kept(cfg, m, now) == m

\* lines 295-297: the stamp under the lock
store_timestamp_under_lock(cfg, m, now) ==
    IF ~cfg.duplication_enable THEN [m EXCEPT !.store_timestamp = now] ELSE m

IsNotOrCommit(tran) ==
    tran = "TRANSACTION_NOT_TYPE" \/ tran = "TRANSACTION_COMMIT_TYPE"

\* assign_offset: consume_queue_store.assign_queue_offset stamps the current counter
assign_offset(store, m) ==
    IF IsNotOrCommit(m.tran)
    THEN [m EXCEPT !.queue_offset = store[m.key]]
    ELSE m

\* increase_offset: consume_queue_store.increase_queue_offset adds message_num
increase_offset(store, m, message_num) ==
    IF IsNotOrCommit(m.tran)
    THEN [store EXCEPT ![m.key] = @ + message_num]
    ELSE store

\* mutant: the segment looked up before the lock is used whenever there is one
need_new_file_OnlyNone(q, mapped_file) ==
    mapped_file = 0

\* line 299: the segment looked up before the lock is replaced when it is None or full
need_new_file(q, mapped_file) ==
    mapped_file = 0 \/ is_full(q[mapped_file])

\* mutant: the counter moves whatever the status of the call
store_after_put_AnyStatus(store, status, m) ==
    increase_offset(store, m, get_message_num(m))

\* lines 371-373: the counter moves only for a call whose status is PutOk
store_after_put(store, status, m) ==
    IF status = "PutOk"
    THEN increase_offset(store, m, get_message_num(m))
    ELSE store

\* mutant: an UnknownError of the first append is retried like an EndOfFile
FirstAppendStatus_RetriesUnknown(status) ==
    CASE status = "PutOk" -> "PutOk"
      [] status = "MessageSizeExceeded" -> "MessageIllegal"
      [] status = "PropertiesSizeExceeded" -> "MessageIllegal"
      [] OTHER -> "EndOfFile"

\* mutant: EndOfFile falls out of the match as PutOk, without a retry
FirstAppendStatus_EofIsOk(status) ==
    CASE status = "MessageSizeExceeded" -> "MessageIllegal"
      [] status = "PropertiesSizeExceeded" -> "MessageIllegal"
      [] status = "UnknownError" -> "UnknownError"
      [] OTHER -> "PutOk"

\* the match on result.status of the first append (EndOfFile is PutRoll's)
FirstAppendStatus(status) ==
    CASE status = "PutOk" -> "PutOk"
      [] status = "MessageSizeExceeded" -> "MessageIllegal"
      [] status = "PropertiesSizeExceeded" -> "MessageIllegal"
      [] status = "UnknownError" -> "UnknownError"
      [] OTHER -> "EndOfFile"

\* mutant: the lock is released before the retry on the next segment
lock_after_append_FreeAtEndOfFile(lock, status) ==
    IF status = "EndOfFile" THEN "free" ELSE lock

\* lines 310-358: the guard `lock` of line 292 lives through every arm of the
\* match, the EndOfFile arm and its retry included, until drop(lock) (line 360)
lock_after_append(lock, status) == lock

\* mutant: the retry's result is not looked at
RetryAppendStatus_AlwaysOk(status) ==
    "PutOk"

\* the status after the retry's append
RetryAppendStatus(status) ==
    IF status = "PutOk" THEN "PutOk" ELSE "UnknownError"

(***************************************************************************)
(* Reading a segment: get_simple_message_bytes and                         *)
(* check_message_and_return_size                                           *)
(***************************************************************************)

\* the casts `as u64` and `as i64` (two's complement)
AsU64(i) == IF i < 0 THEN i + U64Modulus ELSE i

AsI64(u) == IF u >= U64Modulus \div 2 THEN u - U64Modulus ELSE u

\* MappedFile::get_bytes(pos, size) is Some when the range lies in the file
has_bytes(pos, size) == pos + size <= FileSize

NoBytes == [some |-> FALSE, bytes |-> Blank(0, 0), size |-> 0]

\* get_simple_message_bytes (lines 561-580): the i32 at position, and that many
\* bytes from position
get_simple_message_bytes(position, mapped_file) ==
    IF ~has_bytes(position, 4)
    THEN NoBytes
    ELSE LET k == EntryAt(mapped_file.data, position)
             size == IF k = 0 THEN 0 ELSE mapped_file.data[k].total_size
         IN  IF size <= 0
             THEN NoBytes
             ELSE IF ~has_bytes(position, size)
             THEN [NoBytes EXCEPT !.size = size]
             ELSE [some |-> TRUE, bytes |-> mapped_file.data[k], size |-> size]

\* DispatchRequest { msg_size, success, ..Default::default() }, and the decoder
\* running off the end of its buffer (Bytes::get_i32 and copy_to_bytes panic)
Request(success, msg_size) ==
    [panic |-> FALSE, success |-> success, msg_size |-> msg_size, key |-> "",
     commit_log_offset |-> 0, consume_queue_offset |-> 0,
     tran |-> "TRANSACTION_NOT_TYPE", store_timestamp |-> 0,
     properties_map |-> NoInnerNum]

\* string_to_message_properties on the bytes of a topic name (lines 864-865): a
\* topic name holds no name-value separator, so no property comes out of it
string_to_message_properties(topic_bytes) == NoInnerNum

BufferUnderflow == [Request(FALSE, -1) EXCEPT !.panic = TRUE]

\* mutant: the body's CRC is never compared
crc_is_compared_Never(check_crc, cfg) == FALSE

\* line 843: check_crc && !message_store_config.force_verify_prop_crc
crc_is_compared(check_crc, cfg) == check_crc /\ ~cfg.force_verify_prop_crc

\* check_message_and_return_size (lines 788-950) on a buffer of total_size bytes
check_message_and_return_size(bytes, check_crc, check_dup_info, read_body, cfg) ==
    \* lines 795-796: total_size and magic_code
    IF bytes.total_size < 8 THEN BufferUnderflow
    ELSE IF bytes.magic = "BLANK" THEN Request(TRUE, 0)
    ELSE IF bytes.magic # "V1" THEN Request(FALSE, -1)
    \* lines 816-842: the fixed fields and the body
    ELSE IF ~bytes.buffer_holds_body THEN BufferUnderflow
    \* lines 843-852
    ELSE IF /\ bytes.has_body /\ read_body
            /\ crc_is_compared(check_crc, cfg)
            /\ ~bytes.crc_ok
    THEN Request(FALSE, -1)
    \* lines 858-863: topic and properties
    ELSE IF bytes.total_size < bytes.read_length THEN BufferUnderflow
    \* lines 864-890: DUP_INFO is looked up in the map parsed from topic_bytes
    ELSE IF bytes.has_properties /\ check_dup_info /\ ~bytes.dup_info_in_topic
    THEN Request(FALSE, -1)
    \* lines 912-931
    ELSE IF bytes.total_size # bytes.read_length
    THEN Request(FALSE, bytes.total_size)
    ELSE [Request(TRUE, bytes.total_size) EXCEPT
             !.key = bytes.key, !.commit_log_offset = bytes.physic_offset,
             !.consume_queue_offset = bytes.queue_offset, !.tran = bytes.tran,
             !.store_timestamp = bytes.store_timestamp,
             \* lines 862-905: the map is parsed from topic_bytes, the
             \* properties bytes are read and dropped
             !.properties_map = IF bytes.has_properties
                                THEN string_to_message_properties(bytes.key)
                                ELSE NoInnerNum]

\* mutant: do_dispatch is not looked at
on_commit_log_dispatch_Always(requests, request, do_dispatch, is_recover, is_file_end) ==
    IF ~is_file_end THEN Append(requests, request) ELSE requests

\* on_commit_log_dispatch (lines 429-439)
on_commit_log_dispatch(requests, request, do_dispatch, is_recover, is_file_end) ==
    IF do_dispatch /\ ~is_file_end THEN Append(requests, request) ELSE requests

\* get_confirm_offset (lines 583-590); "unimplemented" is the panic of line 585
get_confirm_offset(cfg, q, self_confirm_offset) ==
    IF cfg.enable_controller_mode THEN "unimplemented"
    ELSE IF cfg.broker_duplication_enable THEN self_confirm_offset
    ELSE get_max_offset(q)

\* mutant: the offset is rounded down to the start of its file
roll_next_file_SameFile(offset, mapped_file_size) ==
    AsI64((offset - (offset % mapped_file_size) + U64Modulus) % U64Modulus)

\* roll_next_file (lines 758-761), mapped_file_size being
\* message_store_config.mapped_file_size_commit_log as i64; i64 arithmetic wraps
roll_next_file(offset, mapped_file_size) ==
    AsI64((offset + mapped_file_size - (offset % mapped_file_size) + U64Modulus)
          % U64Modulus)

(***************************************************************************)
(* MappedFileQueue: load and truncate_dirty_files                          *)
(***************************************************************************)

\* MappedFileQueue::load: every file of the directory is mapped with its three
\* positions at the file size; the bytes are those on disk
load(q) ==
    [i \in 1..Len(q) |->
        [q[i] EXCEPT !.wrote_position = FileSize, !.committed_position = FileSize,
                     !.flushed_position = FileSize]]

\* mutant: the segments that start past offset stay in the list
truncate_dirty_files_KeepsLater(q, offset) ==
    [i \in 1..Len(q) |->
        IF q[i].file_from_offset + FileSize > offset /\ offset >= q[i].file_from_offset
        THEN [q[i] EXCEPT !.wrote_position = offset % FileSize,
                          !.committed_position = offset % FileSize,
                          !.flushed_position = offset % FileSize]
        ELSE q[i]]

\* MappedFileQueue::truncate_dirty_files(offset): of the segments that end past
\* offset, the one that holds offset gets its positions set to offset % FileSize
\* and the ones that start past it are deleted
truncate_dirty_files(q, offset) ==
    LET kept == SelectSeq(q, LAMBDA f :
                    ~(f.file_from_offset + FileSize > offset /\ offset < f.file_from_offset))
    IN  [i \in 1..Len(kept) |->
            IF kept[i].file_from_offset + FileSize > offset
            THEN [kept[i] EXCEPT !.wrote_position = offset % FileSize,
                                 !.committed_position = offset % FileSize,
                                 !.flushed_position = offset % FileSize]
            ELSE kept[i]]

(***************************************************************************)
(* recover_normally                                                        *)
(***************************************************************************)

\* mutant: the end of the last valid frame is remembered instead of its start
last_valid_msg_phy_offset_FrameEnd(process_offset, mapped_file_offset, msg_size) ==
    process_offset + mapped_file_offset + msg_size

\* line 494: last_valid_msg_phy_offset = process_offset + mapped_file_offset,
\* taken before mapped_file_offset moves past the frame
last_valid_msg_phy_offset(process_offset, mapped_file_offset, msg_size) ==
    process_offset + mapped_file_offset

RECURSIVE scan(_, _, _)
\* Lines 480-525: one pass of the loop, got being what get_simple_message_bytes
\* returned and dispatch_request what the decoder made of it. outcome is "break"
\* when the loop is left and "panic" when the decoder panics.
scan_record(q, cfg, s, got, dispatch_request) ==
    LET current_pos == s.current_pos + got.size
    IN  IF ~got.some
        THEN [s EXCEPT !.outcome = "break"]
        ELSE IF dispatch_request.panic
        THEN [s EXCEPT !.outcome = "panic"]
        ELSE IF dispatch_request.success /\ dispatch_request.msg_size > 0
        THEN scan(q, cfg,
                  [s EXCEPT
                     !.last_valid_msg_phy_offset =
                         last_valid_msg_phy_offset(s.process_offset, s.mapped_file_offset,
                                                   dispatch_request.msg_size),
                     !.mapped_file_offset = @ + dispatch_request.msg_size,
                     !.current_pos = current_pos,
                     !.frames = @ + 1,
                     !.dispatched = on_commit_log_dispatch(@, dispatch_request,
                                                           FALSE, TRUE, FALSE)])
        ELSE IF dispatch_request.success /\ dispatch_request.msg_size = 0
        THEN IF s.index + 1 > Len(q)
             THEN [s EXCEPT !.index = @ + 1, !.current_pos = current_pos,
                            !.dispatched = on_commit_log_dispatch(@, dispatch_request,
                                                                  FALSE, TRUE, TRUE),
                            !.outcome = "break"]
             ELSE scan(q, cfg,
                       [s EXCEPT
                          !.index = @ + 1,
                          !.mapped_file_offset = 0,
                          !.process_offset = q[s.index + 1].file_from_offset,
                          !.current_pos = 0,
                          !.dispatched = on_commit_log_dispatch(@, dispatch_request,
                                                                FALSE, TRUE, TRUE)])
        ELSE [s EXCEPT !.current_pos = current_pos, !.failed = TRUE,
                       !.outcome = "break"]

\* the decoder on what get_simple_message_bytes returned (lines 485-491 and 639-645)
decoded(got, cfg) ==
    check_message_and_return_size(got.bytes, cfg.check_crc_on_recover,
                                  cfg.duplication_enable, TRUE, cfg)

\* one pass of the loop on the record read at got
scan_read(q, cfg, s, got) == scan_record(q, cfg, s, got, decoded(got, cfg))

\* The loop of lines 479-526 from the locals s (index counts from 1)
scan(q, cfg, s) ==
    scan_read(q, cfg, s, get_simple_message_bytes(s.current_pos, q[s.index]))

\* lines 527 and 703: process_offset += mapped_file_offset
end_process_offset(process_offset, mapped_file_offset) ==
    process_offset + mapped_file_offset

\* what a run of recover_normally leaves: the fields of the CommitLog and of its
\* collaborators, and the locals at its end
Recovered(panicked, q, flushed, committed, confirm, checkpoint, calls, requests, process_offset, last_valid, frames, failed) ==
    [panicked |-> panicked, mapped_file_queue |-> q, flushed_where |-> flushed,
     committed_where |-> committed, confirm_offset |-> confirm,
     store_checkpoint |-> checkpoint,
     cq_calls |-> calls, dispatched |-> requests, process_offset |-> process_offset,
     last_valid_msg_phy_offset |-> last_valid, frames |-> frames, failed |-> failed,
     start |-> 0]

\* mutant: the consume-queue files are left as they are
recover_without_files_KeepsIndex(c) ==
    Recovered(FALSE, c.mapped_file_queue, 0, 0, c.confirm_offset, c.store_checkpoint,
              <<>>, c.dispatched, 0, 0, 0, FALSE)

\* lines 549-558 and 729-738: the segment list is empty
recover_without_files(c) ==
    Recovered(FALSE, c.mapped_file_queue, 0, 0, c.confirm_offset, c.store_checkpoint,
              << <<"destroy", 0>>, <<"load_after_destroy", 0>> >>,
              c.dispatched, 0, 0, 0, FALSE)

\* a panic in a recovery: the fields stay as they were, but for the requests
\* already given to the dispatcher
panicked_in_recovery(c, requests, last_valid) ==
    Recovered(TRUE, c.mapped_file_queue, c.flushed_where, c.committed_where,
              c.confirm_offset, c.store_checkpoint, <<>>, requests,
              0, last_valid, 0, FALSE)

\* Lines 527-548 and 703-728, after the loop ended with the locals s: index is
\* where the scan started and first_valid what last_valid_msg_phy_offset started as
after_scan(c, max_phy_offset_of_consume_queue, index, first_valid, s) ==
    LET process_offset == end_process_offset(s.process_offset, s.mapped_file_offset)
        phy_offset == AsI64(s.last_valid_msg_phy_offset)
    IN  IF s.outcome = "panic" \/ c.config.enable_controller_mode
        THEN [panicked_in_recovery(c, s.dispatched, first_valid) EXCEPT !.start = index]
        ELSE [Recovered(FALSE,
                truncate_dirty_files(c.mapped_file_queue, AsI64(process_offset)),
                AsI64(process_offset), AsI64(process_offset),
                phy_offset, AsU64(phy_offset),
                IF AsU64(max_phy_offset_of_consume_queue) >= process_offset
                THEN << <<"truncate_dirty_logic_files", AsI64(process_offset)>> >>
                ELSE <<>>,
                s.dispatched, process_offset, s.last_valid_msg_phy_offset,
                s.frames, s.failed) EXCEPT !.start = index]

\* mutant: the scan starts at the first segment
start_index_First(len) == 0

\* lines 464-468: the scan begins from the last third file
start_index(len) == IF len - 3 <= 0 THEN 0 ELSE len - 3

\* recover_normally(max_phy_offset_of_consume_queue, message_store), lines 450-559,
\* on the state c of the CommitLog (its fields, by the variables' names)
recover_normally(c, max_phy_offset_of_consume_queue) ==
    LET q == c.mapped_file_queue
    IN  IF Len(q) # 0
        THEN IF c.config.enable_controller_mode
             THEN panicked_in_recovery(c, c.dispatched, 0)
             ELSE
             LET index == start_index(Len(q))
                 confirm == AsU64(get_confirm_offset(c.config, q, c.confirm_offset))
             IN  after_scan(c, max_phy_offset_of_consume_queue, index, confirm,
                     scan(q, c.config,
                          [index |-> index + 1,
                           process_offset |-> q[index + 1].file_from_offset,
                           mapped_file_offset |-> 0,
                           last_valid_msg_phy_offset |-> confirm,
                           current_pos |-> 0, frames |-> 0, failed |-> FALSE,
                           dispatched |-> c.dispatched, outcome |-> "loop"]))
        ELSE recover_without_files(c)

(***************************************************************************)
(* recover_abnormally                                                      *)
(***************************************************************************)

\* is_mapped_file_matched_recover (lines 973-1026) on the first record of the
\* segment: its magic code, its store timestamp and the checkpoint's timestamps
\* (get_bytes(..).unwrap_or(zeros) reads zero where nothing was written)
is_mapped_file_matched_recover(cfg, mapped_file, checkpoint) ==
    LET k == EntryAt(mapped_file.data, 0)
        magic_code == IF k = 0 THEN "ZERO" ELSE mapped_file.data[k].magic
        store_timestamp == IF k = 0 THEN 0 ELSE mapped_file.data[k].store_timestamp
    IN  IF magic_code # "V1" THEN FALSE
        ELSE IF store_timestamp = 0 THEN FALSE
        ELSE IF cfg.message_index_enable /\ cfg.message_index_safe
        THEN store_timestamp <= checkpoint.min_timestamp_index
        ELSE store_timestamp <= checkpoint.min_timestamp

RECURSIVE matched_index(_, _, _, _)
\* mutant: the search goes up from the first segment
matched_index_LowestFirst(cfg, q, checkpoint, index) ==
    LET matching == {j \in 0..index :
                        is_mapped_file_matched_recover(cfg, q[j + 1], checkpoint)}
    IN  IF matching = {} THEN -1
        ELSE CHOOSE j \in matching : \A other \in matching : j <= other

\* the loop of lines 606-617 from index (counting from 0): down to the first
\* segment that matches, -1 when none does
matched_index(cfg, q, checkpoint, index) ==
    IF index < 0 THEN index
    ELSE IF is_mapped_file_matched_recover(cfg, q[index + 1], checkpoint)
    THEN index
    ELSE matched_index(cfg, q, checkpoint, index - 1)

RECURSIVE scan_abnormally(_, _, _, _)
\* Lines 634-697: one pass of the loop, got being what get_simple_message_bytes
\* returned and dispatch_request what the decoder made of it; confirm is what
\* self.get_confirm_offset() returns during the loop.
scan_abnormally_record(q, cfg, confirm, s, got, dispatch_request) ==
    LET current_pos == s.current_pos + got.size
        gated == cfg.duplication_enable \/ cfg.enable_controller_mode
        confirmed == dispatch_request.commit_log_offset + got.size <= confirm
    IN  IF ~got.some
        THEN [s EXCEPT !.outcome = "break"]
        ELSE IF dispatch_request.panic
        THEN [s EXCEPT !.outcome = "panic"]
        ELSE IF dispatch_request.success /\ dispatch_request.msg_size > 0
        THEN IF gated /\ cfg.enable_controller_mode
             THEN [s EXCEPT !.outcome = "panic"]
             ELSE scan_abnormally(q, cfg, confirm,
                  [s EXCEPT
                     !.last_valid_msg_phy_offset =
                         last_valid_msg_phy_offset(s.process_offset, s.mapped_file_offset,
                                                   dispatch_request.msg_size),
                     !.mapped_file_offset = @ + dispatch_request.msg_size,
                     !.current_pos = current_pos,
                     !.frames = @ + 1,
                     !.dispatched =
                         IF gated /\ ~confirmed
                         THEN @
                         ELSE on_commit_log_dispatch(@, dispatch_request,
                                                     TRUE, TRUE, FALSE)])
        ELSE IF dispatch_request.success /\ dispatch_request.msg_size = 0
        THEN IF s.index + 1 > Len(q)
             THEN [s EXCEPT !.index = @ + 1, !.current_pos = current_pos,
                            !.dispatched = on_commit_log_dispatch(@, dispatch_request,
                                                                  TRUE, TRUE, TRUE),
                            !.outcome = "break"]
             ELSE scan_abnormally(q, cfg, confirm,
                       [s EXCEPT
                          !.index = @ + 1,
                          !.mapped_file_offset = 0,
                          !.process_offset = q[s.index + 1].file_from_offset,
                          !.current_pos = 0,
                          !.dispatched = on_commit_log_dispatch(@, dispatch_request,
                                                                TRUE, TRUE, TRUE)])
        ELSE [s EXCEPT !.current_pos = current_pos, !.failed = TRUE,
                       !.outcome = "break"]

\* one pass of the loop on the record read at got
scan_abnormally_read(q, cfg, confirm, s, got) ==
    scan_abnormally_record(q, cfg, confirm, s, got, decoded(got, cfg))

\* The loop of lines 633-698 from the locals s (index counts from 1)
scan_abnormally(q, cfg, confirm, s) ==
    scan_abnormally_read(q, cfg, confirm, s,
                         get_simple_message_bytes(s.current_pos, q[s.index]))

\* recover_abnormally(max_phy_offset_of_consume_queue, message_store), lines
\* 592-739, on the state c of the CommitLog; checkpoint holds the store
\* checkpoint's min_timestamp and min_timestamp_index
recover_abnormally(c, max_phy_offset_of_consume_queue, checkpoint) ==
    LET q == c.mapped_file_queue
    IN  IF Len(q) # 0
        THEN LET matched == matched_index(c.config, q, checkpoint, Len(q) - 1)
                 index == IF matched <= 0 THEN 0 ELSE matched
                 from == q[index + 1].file_from_offset
             IN  after_scan(c, max_phy_offset_of_consume_queue, index, from,
                     scan_abnormally(q, c.config,
                          get_confirm_offset(c.config, q, c.confirm_offset),
                          [index |-> index + 1,
                           process_offset |-> from,
                           mapped_file_offset |-> 0,
                           last_valid_msg_phy_offset |-> from,
                           current_pos |-> 0, frames |-> 0, failed |-> FALSE,
                           dispatched |-> c.dispatched, outcome |-> "loop"]))
        ELSE recover_without_files(c)

(***************************************************************************)
(* The scan loops of the recoveries, one pass at a time                    *)
(***************************************************************************)

\* mutant: the scan stays in the segment whose sentinel it decoded
next_index_Same(index) == index

\* lines 502 and 674: index += 1
next_index(index) == index + 1

\* Lines 480-525: one pass of the loop of recover_normally from the locals s,
\* got being what get_simple_message_bytes returned and dispatch_request what
\* the decoder made of it; outcome stays "loop" when the loop goes on
scan_pass_of(q, cfg, s, got, dispatch_request) ==
    IF ~got.some
    THEN [s EXCEPT !.outcome = "break"]
    ELSE IF dispatch_request.panic
    THEN [s EXCEPT !.outcome = "panic"]
    ELSE IF dispatch_request.success /\ dispatch_request.msg_size > 0
    THEN [s EXCEPT
            !.last_valid_msg_phy_offset =
                last_valid_msg_phy_offset(s.process_offset, s.mapped_file_offset,
                                          dispatch_request.msg_size),
            !.mapped_file_offset = @ + dispatch_request.msg_size,
            !.current_pos = @ + got.size,
            !.frames = @ + 1,
            !.dispatched = on_commit_log_dispatch(@, dispatch_request,
                                                  FALSE, TRUE, FALSE)]
    ELSE IF dispatch_request.success /\ dispatch_request.msg_size = 0
    THEN IF next_index(s.index) > Len(q)
         THEN [s EXCEPT !.index = next_index(@), !.current_pos = @ + got.size,
                        !.dispatched = on_commit_log_dispatch(@, dispatch_request,
                                                              FALSE, TRUE, TRUE),
                        !.outcome = "break"]
         ELSE [s EXCEPT
                 !.index = next_index(@),
                 !.mapped_file_offset = 0,
                 !.process_offset = q[next_index(s.index)].file_from_offset,
                 !.current_pos = 0,
                 !.dispatched = on_commit_log_dispatch(@, dispatch_request,
                                                       FALSE, TRUE, TRUE)]
    ELSE [s EXCEPT !.current_pos = @ + got.size, !.failed = TRUE,
                   !.outcome = "break"]

\* one pass on the record read at got
scan_pass_read(q, cfg, s, got) == scan_pass_of(q, cfg, s, got, decoded(got, cfg))

\* one pass of the loop of lines 479-526 from the locals s
scan_pass(q, cfg, s) ==
    scan_pass_read(q, cfg, s, get_simple_message_bytes(s.current_pos, q[s.index]))

\* Lines 634-697: one pass of the loop of recover_abnormally from the locals s;
\* confirm is what self.get_confirm_offset() returns during the loop
scan_abnormally_pass_of(q, cfg, confirm, s, got, dispatch_request) ==
    IF ~got.some
    THEN [s EXCEPT !.outcome = "break"]
    ELSE IF dispatch_request.panic
    THEN [s EXCEPT !.outcome = "panic"]
    ELSE IF dispatch_request.success /\ dispatch_request.msg_size > 0
    THEN IF cfg.enable_controller_mode
         THEN [s EXCEPT !.outcome = "panic"]
         ELSE [s EXCEPT
                 !.last_valid_msg_phy_offset =
                     last_valid_msg_phy_offset(s.process_offset, s.mapped_file_offset,
                                               dispatch_request.msg_size),
                 !.mapped_file_offset = @ + dispatch_request.msg_size,
                 !.current_pos = @ + got.size,
                 !.frames = @ + 1,
                 !.dispatched =
                     IF /\ cfg.duplication_enable
                        /\ ~(dispatch_request.commit_log_offset + got.size <= confirm)
                     THEN @
                     ELSE on_commit_log_dispatch(@, dispatch_request,
                                                 TRUE, TRUE, FALSE)]
    ELSE IF dispatch_request.success /\ dispatch_request.msg_size = 0
    THEN IF next_index(s.index) > Len(q)
         THEN [s EXCEPT !.index = next_index(@), !.current_pos = @ + got.size,
                        !.dispatched = on_commit_log_dispatch(@, dispatch_request,
                                                              TRUE, TRUE, TRUE),
                        !.outcome = "break"]
         ELSE [s EXCEPT
                 !.index = next_index(@),
                 !.mapped_file_offset = 0,
                 !.process_offset = q[next_index(s.index)].file_from_offset,
                 !.current_pos = 0,
                 !.dispatched = on_commit_log_dispatch(@, dispatch_request,
                                                       TRUE, TRUE, TRUE)]
    ELSE [s EXCEPT !.current_pos = @ + got.size, !.failed = TRUE,
                   !.outcome = "break"]

\* one pass on the record read at got
scan_abnormally_pass_read(q, cfg, confirm, s, got) ==
    scan_abnormally_pass_of(q, cfg, confirm, s, got, decoded(got, cfg))

\* one pass of the loop of lines 633-698 from the locals s
scan_abnormally_pass(q, cfg, confirm, s) ==
    scan_abnormally_pass_read(q, cfg, confirm, s,
                              get_simple_message_bytes(s.current_pos, q[s.index]))

\* the locals of either recovery before its loop (lines 470-478 and 623-632),
\* index counting from 0
scan_locals(c, index, first_valid) ==
    [index |-> index + 1,
     process_offset |-> c.mapped_file_queue[index + 1].file_from_offset,
     mapped_file_offset |-> 0,
     last_valid_msg_phy_offset |-> first_valid,
     current_pos |-> 0, frames |-> 0, failed |-> FALSE,
     dispatched |-> c.dispatched, outcome |-> "loop"]

\* a recovery inside its loop: which one, its arguments, where it started and
\* its locals after passes passes
Scanning(op, max_phy_offset_of_consume_queue, checkpoint, index, first_valid, confirm, s) ==
    [op |-> op, max_phy_offset_of_consume_queue |-> max_phy_offset_of_consume_queue,
     checkpoint |-> checkpoint, start |-> index, first_valid |-> first_valid,
     confirm |-> confirm, s |-> s, passes |-> 0]

(***************************************************************************)
(* Logs left by earlier, sequential appends                                *)
(***************************************************************************)

\* the history record of a call that returned PutOk: the frame by its
\* AppendMessageResult
Accepted(w, m, wrote_offset) ==
    [w |-> w, key |-> m.key, tran |-> m.tran, queue_offset |-> m.queue_offset,
     message_num |-> get_message_num(m), physic_offset |-> wrote_offset, size |-> m.size,
     store_timestamp |-> m.store_timestamp]

EmptyLog ==
    [queue |-> <<>>, store |-> [k \in Queues |-> 0], accepted |-> <<>>]

\* one put_message run alone to PutOk on log l (the frame fits the last segment)
PutAlone(l, m) ==
    LET msg == assign_offset(l.store, m)
        got == get_last_mapped_file_mut_start_offset(l.queue, 0, TRUE, TRUE)
        a   == append_message(got.queue[got.file], msg, FALSE)
    IN  [queue |-> [got.queue EXCEPT ![got.file] = a.file],
         store |-> increase_offset(l.store, msg, get_message_num(msg)),
         accepted |-> Append(l.accepted, Accepted("w1", msg, a.result.wrote_offset))]

RECURSIVE PutAll(_, _)
PutAll(l, ms) ==
    IF ms = <<>> THEN l ELSE PutAll(PutAlone(l, Head(ms)), Tail(ms))

\* The log after frames of 300, 400 and 300 bytes (scenario S1's sizes, so
\* wrote_position is 1000), the first two batches of 5 on the batch queue, whose
\* counter is then 10 (scenario S4's start).
LogS1 ==
    PutAll(EmptyLog,
           << Msg("TopicB-0", "TRANSACTION_NOT_TYPE", 300, FALSE, InnerNum(5), "PutOk"),
              Msg("TopicB-0", "TRANSACTION_NOT_TYPE", 400, FALSE, InnerNum(5), "PutOk"),
              Msg("TopicA-0", "TRANSACTION_NOT_TYPE", 300, FALSE, NoInnerNum, "PutOk") >>)

InitLogs == {EmptyLog, LogS1}

Idle ==
    [pc |-> "idle", msg |-> Msg("TopicA-0", "TRANSACTION_NOT_TYPE", 300, FALSE,
                                NoInnerNum, "PutOk"),
     mapped_file |-> 0, status |-> "None", result |-> "None", appends |-> 0,
     assigned |-> FALSE]

(***************************************************************************)
(* Logs found on disk at start-up                                          *)
(***************************************************************************)

\* What a segment of the directory can hold: the records of scenario S2's first
\* segment (300, 400, 300 and the sentinel), one 400-byte frame, that frame with
\* a body that no longer has its CRC, a CRC-corrupt frame between two intact
\* ones, a record of unknown magic, a frame whose totalSize is larger than its
\* lengths add up to (inside the file, and past its end), one whose totalSize is
\* smaller (cut in the properties, and cut in the body), and nothing.
Kinds == {"Full", "Partial", "CrcCorrupt", "CrcCorruptMid", "BadMagic", "TooLong",
          "PastEnd", "TooShort", "TooShortBody", "Empty"}

StoredMsg(size, queue_offset) ==
    [Msg("TopicA-0", "TRANSACTION_NOT_TYPE", size, FALSE, NoInnerNum, "PutOk")
        EXCEPT !.queue_offset = queue_offset]

\* the records of a segment of kind kind at file_from_offset, the queue's
\* counter being base at its first frame
KindData(kind, file_from_offset, base) ==
    LET \* the frames of a segment are stamped after those of the segment before
        time == 10 * (file_from_offset \div FileSize + 1)
        F(size, pos, n) ==
            [Frame(StoredMsg(size, base + n), file_from_offset + pos)
                EXCEPT !.store_timestamp = time + n]
    IN  CASE kind = "Full" ->
               <<F(300, 0, 0), F(400, 300, 1), F(300, 700, 2),
                 Blank(24, file_from_offset + 1000)>>
          [] kind = "Partial" -> <<F(400, 0, 0)>>
          [] kind = "CrcCorrupt" -> <<[F(400, 0, 0) EXCEPT !.crc_ok = FALSE]>>
          [] kind = "CrcCorruptMid" ->
               <<F(300, 0, 0), [F(400, 300, 1) EXCEPT !.crc_ok = FALSE], F(300, 700, 2)>>
          [] kind = "BadMagic" ->
               <<F(300, 0, 0), [F(300, 300, 1) EXCEPT !.magic = "BAD"]>>
          [] kind = "TooLong" ->
               <<F(300, 0, 0), [F(400, 300, 1) EXCEPT !.total_size = 500]>>
          [] kind = "PastEnd" ->
               <<F(300, 0, 0), [F(400, 300, 1) EXCEPT !.total_size = 900]>>
          [] kind = "TooShort" ->
               <<F(300, 0, 0), [F(400, 300, 1) EXCEPT !.total_size = 300]>>
          [] kind = "TooShortBody" ->
               <<F(300, 0, 0), [F(400, 300, 1) EXCEPT !.total_size = 200,
                                                      !.buffer_holds_body = FALSE,
                                                      !.crc_ok = FALSE]>>
          \* for recover_abnormally: noise whose first four bytes read 5, a first
          \* frame with storeTimestamp 0, two frames that fill the file, and a
          \* frame whose properties hold a DUP_INFO
          [] kind = "WithDupInfo" ->
               <<[F(400, 0, 0) EXCEPT !.has_properties = TRUE, !.dup_info = TRUE]>>
          [] kind = "Noise" ->
               <<F(300, 0, 0), [F(300, 300, 1) EXCEPT !.total_size = 5,
                                                      !.magic = "BAD"]>>
          [] kind = "ZeroTime" -> <<[F(400, 0, 0) EXCEPT !.store_timestamp = 0]>>
          [] kind = "Exact" -> <<F(512, 0, 0), F(512, 512, 1)>>
          [] OTHER -> <<>>

\* the number of records of data that are frames
FrameCount(data) == Cardinality({k \in 1..Len(data) : data[k].magic = "V1"})

RECURSIVE Directory(_, _, _)
\* the segment files of the given kinds, in the order of their names
Directory(kinds, file_from_offset, base) ==
    IF kinds = <<>>
    THEN <<>>
    ELSE LET data == KindData(Head(kinds), file_from_offset, base)
         IN  <<[NewMappedFile(file_from_offset) EXCEPT !.data = data]>>
             \o Directory(Tail(kinds), file_from_offset + FileSize, base + FrameCount(data))

RECURSIVE Frames(_)
\* the number of frames in the segments of q
Frames(q) == IF q = <<>> THEN 0 ELSE FrameCount(Head(q).data) + Frames(Tail(q))

\* the directories recover_normally is run on
Directories ==
    { Directory(kinds, 0, 0) : kinds \in UNION { [1..n -> Kinds] : n \in 0..MaxFiles } }

\* scenario S3's directory, and the directories a broker is restarted on between puts
DirectoryS3 == Directory(<<"Full", "CrcCorrupt">>, 0, 0)

LifeDirectories ==
    { <<>>, DirectoryS3, Directory(<<"Partial">>, 0, 0),
      Directory(<<"CrcCorruptMid", "Partial">>, 0, 0) }

\* what a segment can hold when the broker crashed
CrashKinds == {"Full", "Partial", "CrcCorrupt", "CrcCorruptMid", "BadMagic", "Noise",
               "ZeroTime", "Exact", "Empty", "WithDupInfo"}

\* scenario S5's directory: five segments, their first frames stamped 10, 20,
\* 30, 40 and 50
DirectoryS5 == Directory(<<"Full", "Full", "Full", "Full", "Partial">>, 0, 0)

\* the directories recover_abnormally is run on
CrashDirectories ==
    { Directory(kinds, 0, 0) : kinds \in UNION { [1..n -> CrashKinds] : n \in 0..MaxFiles } }
    \cup { DirectoryS5 }

\* what the segments hold where the start of the scan is looked at
ScanKinds == {"Full", "Partial", "CrcCorrupt", "BadMagic", "Empty"}

\* the directories of one to MaxScanFiles segments of these kinds
ScanDirectories ==
    { Directory(kinds, 0, 0) :
        kinds \in UNION { [1..n -> ScanKinds] : n \in 1..MaxScanFiles } }

\* every content of a segment
LoopKinds == Kinds \cup CrashKinds

\* the directories the loops of the two recoveries are stepped through: none,
\* a segment of every content after up to MaxFiles full ones, a segment of
\* every content before another one, and scenario S5's
LoopDirectories ==
    { <<>>, DirectoryS5 }
    \cup { Directory([i \in 1..n |-> "Full"] \o <<kind>>, 0, 0) :
              n \in 0..MaxFiles, kind \in LoopKinds }
    \cup { Directory(<<kind, "Partial">>, 0, 0) : kind \in LoopKinds }

\* the configurations of a broker that crashed: the default one, one whose index
\* is safe, and duplication mode with broker_config.duplication_enable on and off
CrashConfigs ==
    { DefaultConfig,
      [DefaultConfig EXCEPT !.message_index_safe = TRUE],
      [DefaultConfig EXCEPT !.duplication_enable = TRUE,
                            !.broker_duplication_enable = TRUE],
      [DefaultConfig EXCEPT !.duplication_enable = TRUE] }

\* the store checkpoint at the crash: its min_timestamp and min_timestamp_index
\* (35 lies between the first frames of S5's segments 2 and 3), and its
\* confirm_phy_offset
CheckpointTimes ==
    { [min_timestamp |-> 5, min_timestamp_index |-> 15],
      [min_timestamp |-> 15, min_timestamp_index |-> 5],
      [min_timestamp |-> 35, min_timestamp_index |-> 15] }

ConfirmPhyOffsets == {0, 700}

\* max_phy_offset_of_consume_queue as the index reports it (-1: no index entry)
MaxPhyOffsets == {-1, 0, 2048}

\* the messages put after a restart
LifeMessages ==
    { Msg("TopicA-0", "TRANSACTION_NOT_TYPE", s, FALSE, NoInnerNum, "PutOk") :
         s \in {300, 400} }

\* the configurations put_message reads: duplication mode, the broker's role
\* and the two HA modes that are not implemented
PutConfigs ==
    { [DefaultConfig EXCEPT !.duplication_enable = d, !.broker_role = r,
                            !.enable_controller_mode = c,
                            !.enable_slave_acting_master = s] :
         d \in BOOLEAN, r \in BrokerRoles, c \in BOOLEAN, s \in BOOLEAN }

\* the messages put under these configurations: one of each transaction type,
\* and one whose WAIT property is false
PutMessages ==
    { Msg("TopicA-0", t, 300, FALSE, NoInnerNum, "PutOk") : t \in TranTypes }
    \cup { [Msg("TopicA-0", "TRANSACTION_NOT_TYPE", 300, FALSE, NoInnerNum, "PutOk")
              EXCEPT !.wait_store_msg_ok = FALSE] }

(***************************************************************************)
(* Initial states                                                          *)
(***************************************************************************)

NoRun ==
    [pc |-> "loaded", runs |-> 0, max_phy_offset_of_consume_queue |-> 0,
     process_offset |-> 0, last_valid_msg_phy_offset |-> 0, frames |-> 0,
     failed |-> FALSE, mode |-> "none", start |-> 0,
     checkpoint |-> [min_timestamp |-> 0, min_timestamp_index |-> 0]]

\* CommitLog::new (confirm_offset: -1) and load on directory q
Constructed(cfg, q, store, checkpoint) ==
    [config |-> cfg, mapped_file_queue |-> load(q), flushed_where |-> 0,
     committed_where |-> 0, confirm_offset |-> -1, store_checkpoint |-> checkpoint,
     consume_queue_store |-> store, dispatched |-> <<>>]

\* the locals a run of recover_normally ends with
RunOf(run, r, max_phy_offset_of_consume_queue) ==
    [pc |-> IF r.panicked THEN "panicked" ELSE "done",
     runs |-> run.runs + 1,
     max_phy_offset_of_consume_queue |-> max_phy_offset_of_consume_queue,
     process_offset |-> r.process_offset,
     last_valid_msg_phy_offset |-> r.last_valid_msg_phy_offset,
     frames |-> r.frames, failed |-> r.failed, mode |-> "normal",
     start |-> r.start, checkpoint |-> NoRun.checkpoint]

\* no call of the codec is looked at
NoCall == [op |-> "none"]

\* the messages the encoder accepts, as they are when they are encoded: with a
\* queue offset and a store timestamp
ValidMessages ==
    { [m EXCEPT !.queue_offset = o] :
         m \in {n \in Messages : n.verdict = "PutOk" /\ encode_message_ext(n) = "None"},
         o \in {0, 7} }

\* the store configurations the decoder is called under
DecoderConfigs ==
    { [DefaultConfig EXCEPT !.force_verify_prop_crc = f] : f \in BOOLEAN }

\* check_message_and_return_size on the frame encoded from a valid message at
\* physical offset 300, as it is or with its body bytes altered so that their
\* CRC32 is no longer body_crc
DecodeCalls ==
    { [op |-> "check_message_and_return_size", done |-> FALSE, msg |-> m,
       altered |-> a,
       bytes |-> [Frame(m, 300) EXCEPT !.crc_ok = ~a],
       check_crc |-> c, check_dup_info |-> d, read_body |-> r,
       request |-> Request(FALSE, 0)] :
         m \in ValidMessages, a \in BOOLEAN, c \in BOOLEAN, d \in BOOLEAN,
         r \in BOOLEAN }

\* the file sizes and the offsets roll_next_file is called with: the small
\* ones, those around the ends of the first files, and the largest offset for
\* which offset + mapped_file_size fits an i64
MappedFileSizes == {1, 2, 7, 16, FileSize}

Offsets(mapped_file_size) ==
    0..MaxOffset
    \cup { n * mapped_file_size + d : n \in 1..3, d \in {-1, 0, 1} }
    \cup { U64Modulus \div 2 - 1 - mapped_file_size }

RollCalls ==
    UNION { { [op |-> "roll_next_file", done |-> FALSE, offset |-> o,
               mapped_file_size |-> s, result |-> 0] : o \in Offsets(s) } :
            s \in MappedFileSizes }

\* A broker that serves puts: it was constructed on the log l left by earlier
\* puts and has run recover_normally.
Started(cfgs) ==
    /\ config \in cfgs
    /\ \E l \in InitLogs :
          LET c == Constructed(config, l.queue, l.store, 0)
              r == recover_normally(c, 0)
          IN  /\ mapped_file_queue = r.mapped_file_queue
              /\ consume_queue_store = l.store
              /\ accepted = l.accepted
              /\ flushed_where = r.flushed_where
              /\ committed_where = r.committed_where
              /\ confirm_offset = r.confirm_offset
              /\ store_checkpoint = r.store_checkpoint
              /\ dispatched = r.dispatched
              /\ cq_calls = r.cq_calls
              /\ rec = RunOf(NoRun, r, 0)
              /\ loaded = c.mapped_file_queue
    /\ put_message_lock = "free"
    /\ writer = [w \in Writers |-> Idle]
    /\ puts = 0
    /\ clock = StartTime
    /\ call = NoCall

Init == Started(Configs)

\* a broker constructed on directory q, before its recovery
InitOn(cfgs, dirs) ==
    /\ config \in cfgs
    /\ \E q \in dirs :
          LET c == Constructed(config, q, [k \in Queues |->
                                   IF k = "TopicA-0" THEN Frames(q) ELSE 0], 0)
          IN  /\ mapped_file_queue = c.mapped_file_queue
              /\ consume_queue_store = c.consume_queue_store
              /\ flushed_where = c.flushed_where
              /\ committed_where = c.committed_where
              /\ confirm_offset = c.confirm_offset
              /\ store_checkpoint = c.store_checkpoint
              /\ dispatched = c.dispatched
              /\ loaded = c.mapped_file_queue
    /\ accepted = <<>>
    /\ cq_calls = <<>>
    /\ rec = NoRun
    /\ put_message_lock = "free"
    /\ writer = [w \in Writers |-> Idle]
    /\ puts = 0
    /\ clock = StartTime
    /\ call = NoCall

InitRecover == InitOn(RecoverConfigs, Directories)

\* a broker constructed on a directory of up to MaxScanFiles segments
InitScan == InitOn(RecoverConfigs, ScanDirectories)

\* A broker constructed on the directory a crash left. The checkpoint holds the
\* confirm_phy_offset persisted before the crash; whether the message store
\* copies it into the CommitLog (set_confirm_offset, lines 217-221) before the
\* recovery is not decided in this file, so both happen.
InitCrash ==
    /\ config \in CrashConfigs
    /\ \E q \in CrashDirectories, confirm_phy_offset \in ConfirmPhyOffsets,
          restored \in BOOLEAN :
          LET c == Constructed(config, q, [k \in Queues |->
                                   IF k = "TopicA-0" THEN Frames(q) ELSE 0],
                               confirm_phy_offset)
          IN  /\ mapped_file_queue = c.mapped_file_queue
              /\ consume_queue_store = c.consume_queue_store
              /\ flushed_where = c.flushed_where
              /\ committed_where = c.committed_where
              /\ confirm_offset = IF restored THEN AsI64(confirm_phy_offset)
                                  ELSE c.confirm_offset
              /\ store_checkpoint = c.store_checkpoint
              /\ dispatched = c.dispatched
              /\ loaded = c.mapped_file_queue
    /\ accepted = <<>>
    /\ cq_calls = <<>>
    /\ rec = NoRun
    /\ put_message_lock = "free"
    /\ writer = [w \in Writers |-> Idle]
    /\ puts = 0
    /\ clock = StartTime
    /\ call = NoCall

InitLife == InitOn(Configs, LifeDirectories)

\* a started broker under every configuration put_message reads
InitConfigured == Started(PutConfigs)

(***************************************************************************)
(* put_message, in the steps between which other writers can run           *)
(***************************************************************************)

\* Lines 223-291: the pre-lock part. The message is stamped, the last segment is
\* looked up, the HA plan is made (and the call panics where the plan is not
\* implemented), the queue offset is assigned and the frame is encoded; an
\* encoder failure returns.
PutStart(w, m) ==
    /\ rec.pc = "done"
    /\ writer[w].pc = "idle"
    /\ puts < MaxPuts
    /\ LET stamped == store_timestamp_before_lock(config, m, clock)
           mapped_file == get_last_mapped_file(mapped_file_queue)
           msg == IF need_assign_offset(config)
                  THEN assign_offset(consume_queue_store, stamped)
                  ELSE stamped
           put_message_result == encode_message_ext(msg)
       IN  writer' = [writer EXCEPT ![w] =
              IF ha_unimplemented(config, stamped)
              THEN [pc |-> "panicked", msg |-> stamped, mapped_file |-> mapped_file,
                    status |-> "None", result |-> "None", appends |-> 0,
                    assigned |-> FALSE]
              ELSE [pc |-> IF put_message_result # "None" THEN "idle" ELSE "wait_lock",
                    msg |-> msg, mapped_file |-> mapped_file,
                    status |-> put_message_result, result |-> "None", appends |-> 0,
                    assigned |-> need_assign_offset(config) /\ IsNotOrCommit(m.tran)]]
    /\ puts' = puts + 1
    /\ UNCHANGED <<config, mapped_file_queue, put_message_lock, consume_queue_store,
                   accepted, clock>>
    /\ UNCHANGED recvars

\* mutant: the critical section is entered without waiting for the lock
PutLock_NoWait(w) ==
    /\ writer[w].pc = "wait_lock"
    /\ put_message_lock' = w
    /\ writer' = [writer EXCEPT ![w].pc = "locked"]
    /\ UNCHANGED <<config, mapped_file_queue, consume_queue_store, accepted, puts, clock>>
    /\ UNCHANGED recvars

\* Line 292: self.put_message_lock.lock().await
PutLock(w) ==
    /\ writer[w].pc = "wait_lock"
    /\ put_message_lock = "free"
    /\ put_message_lock' = w
    /\ writer' = [writer EXCEPT ![w].pc = "locked"]
    /\ UNCHANGED <<config, mapped_file_queue, consume_queue_store, accepted, puts, clock>>
    /\ UNCHANGED recvars

\* Lines 293-319 and 351-358: under the lock, stamp the message again, take a
\* writable segment (the one looked up before the lock unless it is None or
\* full) and append.
PutAppend(w) ==
    /\ writer[w].pc = "locked"
    /\ \E created \in BOOLEAN, fault \in BOOLEAN :
          LET mapped_file == writer[w].mapped_file
              msg == store_timestamp_under_lock(config, writer[w].msg, clock)
              got == IF need_new_file(mapped_file_queue, mapped_file)
                     THEN get_last_mapped_file_mut_start_offset(
                              mapped_file_queue, 0, TRUE, created)
                     ELSE [queue |-> mapped_file_queue, file |-> mapped_file]
          IN  IF got.file = 0
              THEN /\ put_message_lock' = "free"
                   /\ writer' = [writer EXCEPT ![w].pc = "idle",
                                               ![w].msg = msg,
                                               ![w].mapped_file = 0,
                                               ![w].status = "CreateMappedFileFailed"]
                   /\ UNCHANGED <<mapped_file_queue, accepted>>
              ELSE LET a == append_message(got.queue[got.file], msg, fault)
                       status == FirstAppendStatus(a.result.status)
                   IN  /\ mapped_file_queue' = [got.queue EXCEPT ![got.file] = a.file]
                       /\ writer' = [writer EXCEPT
                             ![w].pc = IF status = "EndOfFile" THEN "roll" ELSE "unlock",
                             ![w].msg = msg,
                             ![w].mapped_file = got.file,
                             ![w].status = IF status = "EndOfFile" THEN "None" ELSE status,
                             ![w].result = a.result.status,
                             ![w].appends = 1]
                       /\ accepted' = IF status = "PutOk"
                                      THEN Append(accepted, Accepted(w, msg,
                                                                    a.result.wrote_offset))
                                      ELSE accepted
                       /\ put_message_lock' = lock_after_append(put_message_lock, status)
    /\ UNCHANGED <<config, consume_queue_store, puts, clock>>
    /\ UNCHANGED recvars

\* Lines 320-350: after EndOfFile, still under the lock, take the next segment
\* and append again; without a segment the call returns.
PutRoll(w) ==
    /\ writer[w].pc = "roll"
    /\ \E created \in BOOLEAN, fault \in BOOLEAN :
          LET got == get_last_mapped_file_mut_start_offset(
                         mapped_file_queue, 0, TRUE, created)
          IN  IF got.file = 0
              THEN /\ put_message_lock' = "free"
                   /\ writer' = [writer EXCEPT ![w].pc = "idle",
                                               ![w].mapped_file = 0,
                                               ![w].status = "CreateMappedFileFailed"]
                   /\ UNCHANGED <<mapped_file_queue, accepted>>
              ELSE LET a == append_message(got.queue[got.file], writer[w].msg, fault)
                       status == RetryAppendStatus(a.result.status)
                   IN  /\ mapped_file_queue' = [got.queue EXCEPT ![got.file] = a.file]
                       /\ writer' = [writer EXCEPT
                             ![w].pc = "unlock",
                             ![w].mapped_file = got.file,
                             ![w].status = status,
                             ![w].result = a.result.status,
                             ![w].appends = 2]
                       /\ accepted' = IF status = "PutOk"
                                      THEN Append(accepted, Accepted(w, writer[w].msg,
                                                                    a.result.wrote_offset))
                                      ELSE accepted
                       /\ UNCHANGED put_message_lock
    /\ UNCHANGED <<config, consume_queue_store, puts, clock>>
    /\ UNCHANGED recvars

\* mutant: the lock is kept when the call leaves the critical section
PutUnlock_Kept(w) ==
    /\ writer[w].pc = "unlock"
    /\ writer' = [writer EXCEPT ![w].pc = "post"]
    /\ UNCHANGED <<config, mapped_file_queue, put_message_lock, consume_queue_store,
                   accepted, puts, clock>>
    /\ UNCHANGED recvars

\* Lines 359-360: drop(lock)
PutUnlock(w) ==
    /\ writer[w].pc = "unlock"
    /\ put_message_lock' = "free"
    /\ writer' = [writer EXCEPT ![w].pc = "post"]
    /\ UNCHANGED <<config, mapped_file_queue, consume_queue_store, accepted, puts, clock>>
    /\ UNCHANGED recvars

\* Lines 371-378: on PutOk the queue counter is increased, then
\* handle_disk_flush_and_ha gives the result back (as the one of lines 400-408
\* does, at its first poll)
PutPost(w) ==
    /\ writer[w].pc = "post"
    /\ consume_queue_store' =
          store_after_put(consume_queue_store, writer[w].status, writer[w].msg)
    /\ writer' = [writer EXCEPT ![w].pc = "idle"]
    /\ UNCHANGED <<config, mapped_file_queue, put_message_lock, accepted, puts, clock>>
    /\ UNCHANGED recvars

\* Lines 371-375, with a disk-flush-and-HA collaborator that waits: the queue
\* counter is increased and the call is suspended in
\* handle_disk_flush_and_ha(..).await
PutSuspend(w) ==
    /\ writer[w].pc = "post"
    /\ writer[w].status = "PutOk"
    /\ consume_queue_store' =
          store_after_put(consume_queue_store, writer[w].status, writer[w].msg)
    /\ writer' = [writer EXCEPT ![w].pc = "flush"]
    /\ UNCHANGED <<config, mapped_file_queue, put_message_lock, accepted, puts, clock>>
    /\ UNCHANGED recvars

\* Lines 374-375: the collaborator gives the result back
PutResume(w) ==
    /\ writer[w].pc = "flush"
    /\ writer' = [writer EXCEPT ![w].pc = "idle"]
    /\ UNCHANGED <<config, mapped_file_queue, put_message_lock, consume_queue_store,
                   accepted, puts, clock>>
    /\ UNCHANGED recvars

\* mutant: the call can be dropped wherever another task can run
suspended_Anywhere(pc) == pc \notin {"idle", "panicked"}

\* the .await of put_message: lines 292 and 374-375
suspended(pc) == pc \in {"wait_lock", "flush"}

\* The caller drops the future of put_message while it is suspended. The guard
\* of the mutex, if the call holds it, is dropped with the future.
PutCancel(w) ==
    /\ suspended(writer[w].pc)
    /\ writer' = [writer EXCEPT ![w].pc = "idle", ![w].status = "Cancelled"]
    /\ put_message_lock' = IF put_message_lock = w THEN "free" ELSE put_message_lock
    /\ UNCHANGED <<config, mapped_file_queue, consume_queue_store, accepted, puts, clock>>
    /\ UNCHANGED recvars

\* time passes
Tick ==
    /\ clock < StartTime + MaxTicks
    /\ clock' = clock + 1
    /\ UNCHANGED <<config, mapped_file_queue, put_message_lock, consume_queue_store,
                   writer, accepted, puts>>
    /\ UNCHANGED recvars

(***************************************************************************)
(* Start-up: load and recover_normally                                     *)
(***************************************************************************)

\* the fields of the CommitLog and of its collaborators that recovery reads
Self ==
    [config |-> config, mapped_file_queue |-> mapped_file_queue,
     flushed_where |-> flushed_where, committed_where |-> committed_where,
     confirm_offset |-> confirm_offset, store_checkpoint |-> store_checkpoint,
     consume_queue_store |-> consume_queue_store, dispatched |-> dispatched]

\* Lines 450-559: one run of recover_normally, from load to its return or panic
Recover(max_phy_offset_of_consume_queue) ==
    /\ rec.pc = "loaded"
    /\ LET r == recover_normally(Self, max_phy_offset_of_consume_queue)
       IN  /\ mapped_file_queue' = r.mapped_file_queue
           /\ flushed_where' = r.flushed_where
           /\ committed_where' = r.committed_where
           /\ confirm_offset' = r.confirm_offset
           /\ store_checkpoint' = r.store_checkpoint
           /\ dispatched' = r.dispatched
           /\ cq_calls' = r.cq_calls
           /\ rec' = RunOf(rec, r, max_phy_offset_of_consume_queue)
    /\ UNCHANGED <<config, putvars, loaded, call>>

\* Lines 592-739: one run of recover_abnormally, from load to its return or panic
RecoverAbnormally(max_phy_offset_of_consume_queue, checkpoint) ==
    /\ rec.pc = "loaded"
    /\ LET r == recover_abnormally(Self, max_phy_offset_of_consume_queue, checkpoint)
       IN  /\ mapped_file_queue' = r.mapped_file_queue
           /\ flushed_where' = r.flushed_where
           /\ committed_where' = r.committed_where
           /\ confirm_offset' = r.confirm_offset
           /\ store_checkpoint' = r.store_checkpoint
           /\ dispatched' = r.dispatched
           /\ cq_calls' = r.cq_calls
           /\ rec' = [RunOf(rec, r, max_phy_offset_of_consume_queue) EXCEPT
                         !.mode = "abnormal", !.checkpoint = checkpoint]
    /\ UNCHANGED <<config, putvars, loaded, call>>

\* Lines 462-478: recover_normally on a log with segments comes to its loop
ScanBegin(max_phy_offset_of_consume_queue) ==
    /\ rec.pc = "loaded"
    /\ call = NoCall
    /\ Len(mapped_file_queue) # 0
    /\ ~config.enable_controller_mode
    /\ LET index == start_index(Len(mapped_file_queue))
           confirm == AsU64(get_confirm_offset(config, mapped_file_queue, confirm_offset))
       IN  call' = Scanning("recover_normally", max_phy_offset_of_consume_queue,
                            NoRun.checkpoint, index, confirm, confirm,
                            scan_locals(Self, index, confirm))
    /\ UNCHANGED <<config, putvars, mapped_file_queue, flushed_where, committed_where,
                   confirm_offset, store_checkpoint, dispatched, cq_calls, rec, loaded>>

\* Lines 604-632: recover_abnormally on a log with segments comes to its loop
ScanBeginAbnormally(max_phy_offset_of_consume_queue, checkpoint) ==
    /\ rec.pc = "loaded"
    /\ call = NoCall
    /\ Len(mapped_file_queue) # 0
    /\ LET matched == matched_index(config, mapped_file_queue, checkpoint,
                                    Len(mapped_file_queue) - 1)
           index == IF matched <= 0 THEN 0 ELSE matched
           from == mapped_file_queue[index + 1].file_from_offset
       IN  call' = Scanning("recover_abnormally", max_phy_offset_of_consume_queue,
                            checkpoint, index, from,
                            get_confirm_offset(config, mapped_file_queue, confirm_offset),
                            scan_locals(Self, index, from))
    /\ UNCHANGED <<config, putvars, mapped_file_queue, flushed_where, committed_where,
                   confirm_offset, store_checkpoint, dispatched, cq_calls, rec, loaded>>

\* a recovery is inside its loop
InScan == call.op \in {"recover_normally", "recover_abnormally"}

\* Lines 480-525 and 634-697: one pass of the loop
ScanPass ==
    /\ InScan
    /\ call.s.outcome = "loop"
    /\ call' = [call EXCEPT
                   !.s = IF call.op = "recover_normally"
                         THEN scan_pass(mapped_file_queue, config, @)
                         ELSE scan_abnormally_pass(mapped_file_queue, config,
                                                   call.confirm, @),
                   !.passes = @ + 1]
    /\ UNCHANGED <<config, putvars, mapped_file_queue, flushed_where, committed_where,
                   confirm_offset, store_checkpoint, dispatched, cq_calls, rec, loaded>>

\* Lines 527-548 and 703-728: the loop is left, and the recovery returns or panics
ScanReturn ==
    /\ InScan
    /\ call.s.outcome # "loop"
    /\ LET r == after_scan(Self, call.max_phy_offset_of_consume_queue, call.start,
                           call.first_valid, call.s)
           run == RunOf(rec, r, call.max_phy_offset_of_consume_queue)
       IN  /\ mapped_file_queue' = r.mapped_file_queue
           /\ flushed_where' = r.flushed_where
           /\ committed_where' = r.committed_where
           /\ confirm_offset' = r.confirm_offset
           /\ store_checkpoint' = r.store_checkpoint
           /\ dispatched' = r.dispatched
           /\ cq_calls' = r.cq_calls
           /\ rec' = IF call.op = "recover_normally" THEN run
                     ELSE [run EXCEPT !.mode = "abnormal",
                                      !.checkpoint = call.checkpoint]
    /\ call' = NoCall
    /\ UNCHANGED <<config, putvars, loaded>>

\* Lines 549-558: recover_normally on a log without segments has no loop
RecoverWithoutFiles(max_phy_offset_of_consume_queue) ==
    /\ Len(mapped_file_queue) = 0
    /\ Recover(max_phy_offset_of_consume_queue)

\* recover_normally called once more on the same CommitLog, with no load, no
\* append and no file change since the run before
RecoverAgain(max_phy_offset_of_consume_queue) ==
    /\ rec.pc = "done"
    /\ rec.runs < MaxRuns
    /\ puts = 0
    /\ LET r == recover_normally(Self, max_phy_offset_of_consume_queue)
       IN  /\ mapped_file_queue' = r.mapped_file_queue
           /\ flushed_where' = r.flushed_where
           /\ committed_where' = r.committed_where
           /\ confirm_offset' = r.confirm_offset
           /\ store_checkpoint' = r.store_checkpoint
           /\ dispatched' = r.dispatched
           /\ cq_calls' = r.cq_calls
           /\ rec' = RunOf(rec, r, max_phy_offset_of_consume_queue)
    /\ UNCHANGED <<config, putvars, loaded, call>>

\* The broker stops (no put_message running, or after the panic of a recovery)
\* and is started again: CommitLog::new and load (lines 167-205) on the files as
\* they are; the checkpoint and the index keep what they hold.
Load ==
    /\ rec.pc \in {"done", "panicked"}
    /\ rec.runs < MaxRuns
    /\ \A w \in Writers : writer[w].pc = "idle"
    /\ mapped_file_queue' = load(mapped_file_queue)
    /\ loaded' = load(mapped_file_queue)
    /\ flushed_where' = 0
    /\ committed_where' = 0
    /\ confirm_offset' = -1
    /\ dispatched' = <<>>
    /\ cq_calls' = <<>>
    /\ rec' = [rec EXCEPT !.pc = "loaded"]
    /\ writer' = [w \in Writers |-> Idle]
    /\ UNCHANGED <<config, put_message_lock, consume_queue_store, accepted, puts,
                   clock, store_checkpoint, call>>

(***************************************************************************)
(* The codec's functions, called on their own                              *)
(***************************************************************************)

\* a CommitLog on an empty directory and one call to be made
InitCalls ==
    /\ config \in DecoderConfigs
    /\ call \in DecodeCalls \cup RollCalls
    /\ mapped_file_queue = <<>>
    /\ consume_queue_store = EmptyLog.store
    /\ accepted = <<>>
    /\ flushed_where = 0
    /\ committed_where = 0
    /\ confirm_offset = -1
    /\ store_checkpoint = 0
    /\ dispatched = <<>>
    /\ cq_calls = <<>>
    /\ rec = NoRun
    /\ loaded = <<>>
    /\ put_message_lock = "free"
    /\ writer = [w \in Writers |-> Idle]
    /\ puts = 0
    /\ clock = StartTime

\* check_message_and_return_size (lines 788-950) on the bytes of the call
Decode ==
    /\ call.op = "check_message_and_return_size"
    /\ ~call.done
    /\ call' = [call EXCEPT
                   !.done = TRUE,
                   !.request = check_message_and_return_size(
                                   call.bytes, call.check_crc, call.check_dup_info,
                                   call.read_body, config)]
    /\ UNCHANGED <<config, mapped_file_queue, putvars, flushed_where, committed_where,
                   confirm_offset, store_checkpoint, dispatched, cq_calls, rec, loaded>>

\* roll_next_file (lines 758-761)
RollNextFile ==
    /\ call.op = "roll_next_file"
    /\ ~call.done
    /\ call' = [call EXCEPT
                   !.done = TRUE,
                   !.result = roll_next_file(call.offset, call.mapped_file_size)]
    /\ UNCHANGED <<config, mapped_file_queue, putvars, flushed_where, committed_where,
                   confirm_offset, store_checkpoint, dispatched, cq_calls, rec, loaded>>

(***************************************************************************)
(* Specifications                                                          *)
(***************************************************************************)

\* a started broker serving puts
Next ==
    \/ \E w \in Writers, m \in Messages : PutStart(w, m)
    \/ \E w \in Writers : PutLock(w)
    \/ \E w \in Writers : PutAppend(w)
    \/ \E w \in Writers : PutRoll(w)
    \/ \E w \in Writers : PutUnlock(w)
    \/ \E w \in Writers : PutPost(w)

Spec == Init /\ [][Next]_vars

\* recovery alone, on every directory
NextRecover ==
    \/ \E max_phy_offset_of_consume_queue \in MaxPhyOffsets :
          Recover(max_phy_offset_of_consume_queue)
    \/ \E max_phy_offset_of_consume_queue \in MaxPhyOffsets :
          RecoverAgain(max_phy_offset_of_consume_queue)
    \/ Load

SpecRecover == InitRecover /\ [][NextRecover]_vars

\* one run of recover_normally on a directory of up to MaxScanFiles segments
NextScan ==
    \E max_phy_offset_of_consume_queue \in MaxPhyOffsets :
        Recover(max_phy_offset_of_consume_queue)

SpecScan == InitScan /\ [][NextScan]_vars

\* the start-up of a broker after a crash or after a clean stop
NextCrash ==
    \/ \E max_phy_offset_of_consume_queue \in MaxPhyOffsets :
          Recover(max_phy_offset_of_consume_queue)
    \/ \E max_phy_offset_of_consume_queue \in MaxPhyOffsets,
          checkpoint \in CheckpointTimes :
          RecoverAbnormally(max_phy_offset_of_consume_queue, checkpoint)

SpecCrash == InitCrash /\ [][NextCrash]_vars

\* the configurations the loops are stepped through under
LoopConfigs == RecoverConfigs \cup CrashConfigs

\* a broker constructed on a directory of segments of every content
InitLoop == InitOn(LoopConfigs, LoopDirectories)

\* either recovery, its loop one pass at a time
NextLoop ==
    \/ \E max_phy_offset_of_consume_queue \in MaxPhyOffsets :
          ScanBegin(max_phy_offset_of_consume_queue)
    \/ \E max_phy_offset_of_consume_queue \in MaxPhyOffsets,
          checkpoint \in CheckpointTimes :
          ScanBeginAbnormally(max_phy_offset_of_consume_queue, checkpoint)
    \/ ScanPass
    \/ ScanReturn
    \/ \E max_phy_offset_of_consume_queue \in MaxPhyOffsets :
          RecoverWithoutFiles(max_phy_offset_of_consume_queue)

\* the recovery runs in one task: its next step is taken
SpecLoop == InitLoop /\ [][NextLoop]_vars /\ WF_vars(NextLoop)

\* the codec's functions on every input
NextCalls ==
    \/ Decode
    \/ RollNextFile

SpecCalls == InitCalls /\ [][NextCalls]_vars

\* a broker's life: start-up, puts, restarts
NextLife ==
    \/ \E max_phy_offset_of_consume_queue \in MaxPhyOffsets :
          Recover(max_phy_offset_of_consume_queue)
    \/ Load
    \/ \E w \in Writers, m \in LifeMessages : PutStart(w, m)
    \/ \E w \in Writers : PutLock(w)
    \/ \E w \in Writers : PutAppend(w)
    \/ \E w \in Writers : PutRoll(w)
    \/ \E w \in Writers : PutUnlock(w)
    \/ \E w \in Writers : PutPost(w)

SpecLife == InitLife /\ [][NextLife]_vars

\* puts under every configuration
NextConfigured ==
    \/ \E w \in Writers, m \in PutMessages : PutStart(w, m)
    \/ \E w \in Writers : PutLock(w)
    \/ \E w \in Writers : PutAppend(w)
    \/ \E w \in Writers : PutRoll(w)
    \/ \E w \in Writers : PutUnlock(w)
    \/ \E w \in Writers : PutPost(w)

SpecConfigured == InitConfigured /\ [][NextConfigured]_vars

\* puts by tasks that can be suspended and dropped, while time passes
NextTasks ==
    \/ \E w \in Writers, m \in LifeMessages : PutStart(w, m)
    \/ \E w \in Writers : PutLock(w)
    \/ \E w \in Writers : PutAppend(w)
    \/ \E w \in Writers : PutRoll(w)
    \/ \E w \in Writers : PutUnlock(w)
    \/ \E w \in Writers : PutPost(w)
    \/ \E w \in Writers : PutSuspend(w)
    \/ \E w \in Writers : PutResume(w)
    \/ \E w \in Writers : PutCancel(w)
    \/ Tick

SpecTasks == Init /\ [][NextTasks]_vars

\* puts by tasks that are scheduled fairly: a task that can take its next step
\* under the lock takes it, and the tokio mutex serves its waiters in turn
NextFair ==
    \/ \E w \in Writers, m \in LifeMessages : PutStart(w, m)
    \/ \E w \in Writers : PutLock(w)
    \/ \E w \in Writers : PutAppend(w)
    \/ \E w \in Writers : PutRoll(w)
    \/ \E w \in Writers : PutUnlock(w)
    \/ \E w \in Writers : PutPost(w)

Fairness ==
    \A w \in Writers :
        /\ SF_vars(PutLock(w))
        /\ WF_vars(PutAppend(w))
        /\ WF_vars(PutRoll(w))
        /\ WF_vars(PutUnlock(w))

SpecFair == Init /\ [][NextFair]_vars /\ Fairness

(***************************************************************************)
(* Properties of put_message                                               *)
(***************************************************************************)

\* the frames of queue key that take a queue offset, in append order
OffsetFrames(key) ==
    SelectSeq(accepted, LAMBDA f : f.key = key /\ IsNotOrCommit(f.tran))

NoCallRunning == \A w \in Writers : writer[w].pc = "idle"

\* C1: for every queue, the queue offsets of the accepted non-transactional and
\* commit frames are pairwise distinct, increase in physical-offset order and
\* leave no gap (each frame starts where the one before it ends: base, base+1,
\* ... for single messages), and the counter stands just past the last of them
\* when no call is running, so prepared and rollback frames never moved it.
C1_QueueOffsetsGapFree ==
    \A key \in Queues :
        LET fs == OffsetFrames(key)
        IN  /\ \A i \in 1..Len(fs), j \in 1..Len(fs) :
                  i < j => /\ fs[i].physic_offset < fs[j].physic_offset
                           /\ fs[i].queue_offset < fs[j].queue_offset
            /\ \A i \in 1..(Len(fs) - 1) :
                  fs[i + 1].queue_offset = fs[i].queue_offset + fs[i].message_num
            /\ (NoCallRunning /\ Len(fs) > 0) =>
                  consume_queue_store[key] =
                      fs[Len(fs)].queue_offset + fs[Len(fs)].message_num

HasBlankAt(f, physic_offset) ==
    \E k \in 1..Len(f.data) :
        f.data[k].magic = "BLANK" /\ f.data[k].physic_offset = physic_offset

HasBlank(f) == \E k \in 1..Len(f.data) : f.data[k].magic = "BLANK"

\* the segment list holds accepted frame a at its physical offset, inside one segment
Stored(a) ==
    \E i \in 1..Len(mapped_file_queue) :
        LET f == mapped_file_queue[i]
        IN  /\ f.file_from_offset <= a.physic_offset
            /\ a.physic_offset + a.size <= f.file_from_offset + FileSize
            /\ \E k \in 1..Len(f.data) :
                  /\ f.data[k].magic = "V1"
                  /\ f.data[k].physic_offset = a.physic_offset
                  /\ f.data[k].total_size = a.size

\* C2: the physical offsets of the frames of the calls that returned PutOk
\* increase in acceptance order; each frame starts where the one before it ends,
\* or, when a padding sentinel was written there, at the file_from_offset of the
\* next segment; every such frame lies in one segment and no two overlap.
C2_PhysicalOffsetsContiguous ==
    /\ \A i \in 1..Len(accepted) : Stored(accepted[i])
    /\ \A i \in 1..(Len(accepted) - 1) :
          LET a == accepted[i]
              b == accepted[i + 1]
          IN  /\ a.physic_offset + a.size <= b.physic_offset
              /\ \/ b.physic_offset = a.physic_offset + a.size
                 \/ \E s \in 1..(Len(mapped_file_queue) - 1) :
                       /\ HasBlankAt(mapped_file_queue[s], a.physic_offset + a.size)
                       /\ b.physic_offset = mapped_file_queue[s + 1].file_from_offset

\* two writers' frames lie on the two sides of a padding sentinel
C2_Witness ==
    \E i \in 1..(Len(accepted) - 1) :
        /\ accepted[i].w # accepted[i + 1].w
        /\ accepted[i + 1].physic_offset > accepted[i].physic_offset + accepted[i].size

\* the step of writer w from pc a to pc b
Went(w, a, b) == writer[w].pc = a /\ writer'[w].pc = b

\* C3: an append of a frame of size s to a segment with r < s bytes left reports
\* EndOfFile, the sentinel [r][BLANK] is recorded and wrote_position becomes
\* FileSize; the writer keeps the put lock until its retry; the segment the retry
\* obtains is a new one at the next boundary, the frame is its first record, at
\* position 0, the status is PutOk and max offset is file_from_offset + s.
C3_RolloverStep ==
    \A w \in Writers :
        /\ (writer[w].pc = "locked" /\ writer'[w].pc \in {"roll", "unlock"}) =>
              LET i == writer'[w].mapped_file
                  m == writer[w].msg
                  r == IF i <= Len(mapped_file_queue)
                       THEN FileSize - mapped_file_queue[i].wrote_position
                       ELSE FileSize
              IN  (r < m.size /\ writer'[w].result \in {"PutOk", "EndOfFile"}) =>
                      /\ writer'[w].pc = "roll"
                      /\ writer'[w].result = "EndOfFile"
                      /\ mapped_file_queue'[i].wrote_position = FileSize
                      /\ mapped_file_queue'[i].data =
                            Append(mapped_file_queue[i].data,
                                   Blank(r, mapped_file_queue[i].file_from_offset
                                            + FileSize - r))
                      /\ put_message_lock' = w
        /\ writer[w].pc = "roll" => put_message_lock = w
        /\ Went(w, "roll", "unlock") =>
              LET j == writer'[w].mapped_file
                  m == writer[w].msg
                  n == Len(mapped_file_queue)
              IN  /\ j = n + 1
                  /\ Len(mapped_file_queue') = j
                  /\ mapped_file_queue'[j].file_from_offset =
                        mapped_file_queue[n].file_from_offset + FileSize
                  /\ put_message_lock' = w
                  /\ writer'[w].result = "PutOk" =>
                        /\ mapped_file_queue'[j].data =
                              <<Frame(m, mapped_file_queue'[j].file_from_offset)>>
                        /\ writer'[w].status = "PutOk"
                        /\ get_max_offset(mapped_file_queue') =
                              mapped_file_queue'[j].file_from_offset + m.size

C3_Rollover == [][C3_RolloverStep]_vars

\* scenario S2: after frames of 300, 400 and 300 bytes a frame of 400 rolls over
\* and max offset is 1424, while the other writer waits for the lock
C3_Witness ==
    \E w \in Writers, v \in Writers :
        /\ writer[w].pc = "unlock" /\ writer[w].appends = 2 /\ writer[w].status = "PutOk"
        /\ writer[v].pc = "wait_lock"
        /\ Len(accepted) = 4
        /\ accepted[4].physic_offset = FileSize /\ accepted[4].size = 400
        /\ mapped_file_queue[1].data[4] = Blank(24, 1000)
        /\ get_max_offset(mapped_file_queue) = 1424

\* C4: a segment that holds a padding sentinel ends with it at wrote_position =
\* FileSize, and no step of any put_message changes that segment afterwards.
C4_SentinelStep ==
    \A i \in 1..Len(mapped_file_queue) :
        HasBlank(mapped_file_queue[i]) =>
            LET f == mapped_file_queue[i]
            IN  /\ f.wrote_position = FileSize
                /\ f.data[Len(f.data)].magic = "BLANK"
                /\ i <= Len(mapped_file_queue')
                /\ mapped_file_queue'[i] = f

C4_SentinelIsLast == [][C4_SentinelStep]_vars

\* a writer that looked up a segment before the lock appends after another
\* writer wrote the sentinel into that segment
C4_Witness ==
    \E w \in Writers :
        /\ writer[w].pc = "unlock" /\ writer[w].result = "PutOk"
        /\ Len(mapped_file_queue) = 2
        /\ HasBlank(mapped_file_queue[1])
        /\ Len(mapped_file_queue[2].data) = 2
        /\ mapped_file_queue[2].data[2].physic_offset = accepted[Len(accepted)].physic_offset
        /\ accepted[Len(accepted)].w = w
        /\ accepted[Len(accepted) - 1].w # w

\* the logical unit count of a message: INNER_NUM for a message with
\* INNER_BATCH_FLAG or on a batch consume queue, otherwise 1
Units(m) ==
    IF (m.inner_batch_flag \/ m.key \in BatchCQ) /\ m.inner_num.present /\ m.inner_num.parses
    THEN m.inner_num.val
    ELSE 1

\* C6: a put_message that returns PutOk for a non-transactional or commit message
\* increases the counter of its queue by the message's unit count, and the queue
\* offset of its frame is the counter's value before the increase.
C6_CounterStep ==
    \A w \in Writers :
        (Went(w, "post", "idle") /\ writer[w].status = "PutOk"
            /\ IsNotOrCommit(writer[w].msg.tran)) =>
            LET m == writer[w].msg
            IN  /\ consume_queue_store'[m.key] = consume_queue_store[m.key] + Units(m)
                /\ m.queue_offset = consume_queue_store[m.key]

C6_CounterAdvance == [][C6_CounterStep]_vars

\* what is too large for the encoder or for the append callback
TooLarge(m) ==
    \/ encode_message_ext(m) # "None"
    \/ m.verdict \in {"MessageSizeExceeded", "PropertiesSizeExceeded"}

\* C7: no step of a put_message whose message is too large (for the encoder or
\* for the append callback) changes max offset, a segment or a queue counter, and
\* the call returns MessageIllegal when the encoder or the callback rejects it;
\* a queue counter changes only in a call whose status is PutOk.
C7_RejectedStep ==
    \A w \in Writers :
        writer'[w] # writer[w] =>
            /\ TooLarge(writer'[w].msg) =>
                  /\ get_max_offset(mapped_file_queue') = get_max_offset(mapped_file_queue)
                  /\ Len(mapped_file_queue') >= Len(mapped_file_queue)
                  /\ \A i \in 1..Len(mapped_file_queue) :
                        mapped_file_queue'[i] = mapped_file_queue[i]
                  /\ consume_queue_store' = consume_queue_store
            /\ ( /\ writer'[w].pc = "idle"
                 /\ \/ encode_message_ext(writer'[w].msg) # "None"
                    \/ writer'[w].result \in {"MessageSizeExceeded", "PropertiesSizeExceeded"} )
                  => writer'[w].status = "MessageIllegal"
            /\ consume_queue_store' # consume_queue_store => writer[w].status = "PutOk"

C7_RejectedLeavesLog == [][C7_RejectedStep]_vars

\* a call rejected by the callback has returned on a log that holds frames, and
\* a call rejected by the encoder has returned as well
C7_Witness ==
    \E w \in Writers, v \in Writers :
        /\ writer[w].pc = "idle" /\ writer[w].result = "MessageSizeExceeded"
        /\ writer[w].status = "MessageIllegal"
        /\ writer[v].pc = "idle" /\ writer[v].appends = 0
        /\ writer[v].status = "MessageIllegal"
        /\ get_max_offset(mapped_file_queue) = 1000

\* C8: the status of a call follows from its append: no segment before the first
\* append or for the retry gives CreateMappedFileFailed; the first append's PutOk
\* gives PutOk, MessageSizeExceeded and PropertiesSizeExceeded give
\* MessageIllegal, UnknownError gives UnknownError; the retry's PutOk gives PutOk
\* and its UnknownError gives UnknownError; the flush call returns that status.
C8_StatusStep ==
    \A w \in Writers :
        /\ (writer[w].pc \in {"locked", "roll"} /\ writer'[w].pc = "idle") =>
              writer'[w].status = "CreateMappedFileFailed"
        /\ (writer[w].pc \in {"locked", "roll"} /\ writer'[w].pc = "unlock") =>
              /\ writer'[w].result \in
                    {"PutOk", "MessageSizeExceeded", "PropertiesSizeExceeded", "UnknownError"}
              /\ writer'[w].result = "PutOk" => writer'[w].status = "PutOk"
              /\ writer'[w].result \in {"MessageSizeExceeded", "PropertiesSizeExceeded"} =>
                    writer'[w].status = "MessageIllegal"
              /\ writer'[w].result = "UnknownError" => writer'[w].status = "UnknownError"
        /\ writer[w].pc \in {"unlock", "post"} =>
              /\ writer'[w].status = writer[w].status
              /\ writer[w].status \in {"PutOk", "MessageIllegal", "UnknownError"}

C8_StatusOfAppend == [][C8_StatusStep]_vars

\* a call found no segment for its retry after EndOfFile, and the other writer's
\* call ended in the callback's UnknownError
C8_Witness ==
    \E w \in Writers, v \in Writers :
        /\ writer[w].pc = "idle" /\ writer[w].result = "EndOfFile"
        /\ writer[w].status = "CreateMappedFileFailed"
        /\ writer[v].pc = "idle" /\ writer[v].result = "UnknownError"
        /\ writer[v].status = "UnknownError"

(***************************************************************************)
(* Properties of the segment list and of recover_normally                  *)
(***************************************************************************)

\* C5: in every state of a broker's life (start-up, puts, restarts) the segments
\* are in order with file_from_offset of segment i+1 = file_from_offset of
\* segment i + FileSize, every segment but the last has wrote_position =
\* FileSize, and each has committed_position <= wrote_position <= FileSize.
C5_SegmentListInvariant ==
    /\ \A i \in 1..(Len(mapped_file_queue) - 1) :
          /\ mapped_file_queue[i + 1].file_from_offset =
                mapped_file_queue[i].file_from_offset + FileSize
          /\ mapped_file_queue[i].wrote_position = FileSize
    /\ \A i \in 1..Len(mapped_file_queue) :
          /\ mapped_file_queue[i].committed_position <= mapped_file_queue[i].wrote_position
          /\ mapped_file_queue[i].wrote_position <= FileSize

\* recovery deleted a segment and cut the one before it, a put then filled that
\* one up to its sentinel and rolled over to a new second segment
C5_Witness ==
    /\ rec.pc = "done"
    /\ loaded = load(Directory(<<"CrcCorruptMid", "Partial">>, 0, 0))
    /\ Len(mapped_file_queue) = 2
    /\ HasBlank(mapped_file_queue[1])
    /\ mapped_file_queue[2].wrote_position = 400
    /\ mapped_file_queue[2].data # loaded[2].data
    /\ \E w \in Writers : writer[w].pc = "unlock" /\ writer[w].appends = 2

\* a record that a reader of the log finds not to be a frame under cfg: unknown
\* magic, a body without its CRC (when the CRC is checked), a totalSize that
\* differs from the length the stored lengths add up to, or, in duplication
\* mode, properties without a DUP_INFO
FailsToDecode(e, cfg) ==
    /\ e.magic # "BLANK"
    /\ \/ e.magic # "V1"
       \/ e.has_body /\ cfg.check_crc_on_recover /\ ~cfg.force_verify_prop_crc /\ ~e.crc_ok
       \/ e.total_size # e.read_length
       \/ cfg.duplication_enable /\ e.has_properties /\ ~e.dup_info

RECURSIVE FirstFailed(_, _, _, _)
\* the physical offset of the first record that fails to decode, reading q from
\* record k of segment i through sentinels; -1 when the records end before one
FirstFailed(q, cfg, i, k) ==
    IF i > Len(q) THEN -1
    ELSE IF k > Len(q[i].data) THEN -1
    ELSE IF q[i].data[k].magic = "BLANK" THEN FirstFailed(q, cfg, i + 1, 1)
    ELSE IF FailsToDecode(q[i].data[k], cfg)
    THEN q[i].file_from_offset + PosOf(q[i].data, k)
    ELSE FirstFailed(q, cfg, i, k + 1)

\* the first segment recovery scans: the third from the end
FirstScanned(q) == IF Len(q) - 3 <= 0 THEN 1 ELSE Len(q) - 2

\* the log after recovery ends at physical offset P: max offset is P, no segment
\* starts past P, the segment that holds P is cut to P - file_from_offset, and
\* every record of the loaded log before P is still there
TruncatedAt(P) ==
    /\ get_max_offset(mapped_file_queue) = P
    /\ \A i \in 1..Len(mapped_file_queue) :
          LET f == mapped_file_queue[i]
          IN  /\ f.file_from_offset <= P
              /\ P < f.file_from_offset + FileSize =>
                    f.wrote_position = P - f.file_from_offset
    /\ \A i \in 1..Len(loaded) : \A k \in 1..Len(loaded[i].data) :
          loaded[i].file_from_offset + PosOf(loaded[i].data, k) < P =>
             /\ i <= Len(mapped_file_queue)
             /\ k <= Len(mapped_file_queue[i].data)
             /\ mapped_file_queue[i].data[k] = loaded[i].data[k]
             /\ PosOf(loaded[i].data, k) < mapped_file_queue[i].wrote_position

\* C9: when the first record of the scanned range that fails to decode (bad
\* magic, CRC mismatch, totalSize different from the computed length) is at
\* physical offset P, recover_normally returns with process_offset = P, max
\* offset is P, the bytes from P on are discarded (later segments deleted, P's
\* segment cut to P - file_from_offset) and the frames before P are kept.
C9_FirstFailedDecodeTruncates ==
    LET P == FirstFailed(loaded, config, FirstScanned(loaded), 1)
    IN  (rec.pc \in {"done", "panicked"} /\ P # -1) =>
            /\ rec.pc = "done"
            /\ rec.process_offset = P
            /\ TruncatedAt(P)

\* the same for the runs of recover_normally that return
C9_WhenRecoveryReturns ==
    LET P == FirstFailed(loaded, config, FirstScanned(loaded), 1)
    IN  (rec.pc = "done" /\ P # -1) =>
            /\ rec.process_offset = P
            /\ TruncatedAt(P)

\* scenario S3 after its recovery: segments at 0 and 1024, frames at 0, 300 and
\* 700, the sentinel at 1000, a CRC-corrupt frame of 400 bytes at 1024, CRC
\* checking on, non-duplication mode
AfterS3 ==
    /\ loaded = load(DirectoryS3)
    /\ config = DefaultConfig
    /\ rec.pc = "done"

\* C10 as stated: in S3 recovery ends with process_offset = 1024 and gives 1024
\* to set_confirm_offset, which the checkpoint keeps as confirm_phy_offset.
C10_ConfirmOffsetIsProcessOffset ==
    AfterS3 =>
        /\ rec.process_offset = 1024
        /\ confirm_offset = 1024
        /\ store_checkpoint = 1024

\* C10, amended: in S3 recovery ends with process_offset = 1024 and
\* get_confirm_offset() = max offset = 1024, while the value given to
\* set_confirm_offset and kept by the checkpoint is 700, the physical offset of
\* the last intact frame.
C10_ConfirmOffsetInS3 ==
    AfterS3 =>
        /\ rec.process_offset = 1024
        /\ get_max_offset(mapped_file_queue) = 1024
        /\ get_confirm_offset(config, mapped_file_queue, confirm_offset) = 1024
        /\ rec.last_valid_msg_phy_offset = 700
        /\ confirm_offset = 700
        /\ store_checkpoint = 700

\* S3's recovery has run: it read three frames and stopped at a failed decode,
\* the second segment is cut to 0
C10_Witness ==
    /\ AfterS3
    /\ rec.frames = 3 /\ rec.failed
    /\ Len(mapped_file_queue) = 2
    /\ mapped_file_queue[2].wrote_position = 0


(***************************************************************************)
(* Recovery run twice                                                      *)
(***************************************************************************)

\* a step that is a second run of recover_normally straight after a first one
SecondRun ==
    rec.pc = "done" /\ rec'.pc = "done" /\ rec'.runs = rec.runs + 1

C11_SecondRunStep ==
    SecondRun =>
        /\ confirm_offset' = confirm_offset
        /\ mapped_file_queue' = mapped_file_queue

\* C11: a second run of recover_normally straight after a first one, with no
\* append and no file change in between, sets the confirm offset the first run
\* set and leaves the segment list and every segment's positions as the first
\* run left them, whatever the log holds (a scanned range with no intact frame
\* included)
C11_RecoveryIdempotent == [][C11_SecondRunStep]_vars

\* the part of C11 about the segment list alone
C11_SecondRunKeepsSegments ==
    [][SecondRun => mapped_file_queue' = mapped_file_queue]_vars

\* the second run changes the confirm offset only when the first run found no
\* intact frame
C11_ConfirmMovesOnlyWithoutFrames ==
    [][SecondRun /\ confirm_offset' # confirm_offset => rec.frames = 0]_vars
(***************************************************************************)
(* The end of a recovery                                                   *)
(***************************************************************************)

RECURSIVE ScanEnd(_, _, _, _, _)
\* the physical offset just past the last intact frame a reader finds from
\* record k of segment i on, up to the first record that fails to decode; a
\* sentinel followed by a segment moves the offset to the start of that
\* segment; end when the reader finds no frame
ScanEnd(q, cfg, i, k, end) ==
    IF i > Len(q) THEN end
    ELSE IF k > Len(q[i].data) THEN end
    ELSE IF q[i].data[k].magic = "BLANK"
    THEN IF i + 1 > Len(q) THEN end
         ELSE ScanEnd(q, cfg, i + 1, 1, q[i + 1].file_from_offset)
    ELSE IF FailsToDecode(q[i].data[k], cfg) THEN end
    ELSE ScanEnd(q, cfg, i, k + 1,
             q[i].file_from_offset + PosOf(q[i].data, k) + q[i].data[k].total_size)

\* a recovery of a non-empty segment list has returned
Finished == rec.pc = "done" /\ Len(loaded) # 0

\* flushedWhere = committedWhere = maxOffset = processOffset
AllAtProcessOffset ==
    /\ flushed_where = rec.process_offset
    /\ committed_where = rec.process_offset
    /\ get_max_offset(mapped_file_queue) = rec.process_offset

\* C12: when either recovery finishes on a non-empty segment list,
\* flushedWhere = committedWhere = maxOffset = processOffset, and processOffset
\* is the physical offset just past the last intact frame of the scan (the
\* start of the segment the scan ended in when it read no frame of it).
C12_EndsPastLastIntactFrame ==
    Finished =>
        /\ AllAtProcessOffset
        /\ rec.process_offset =
              ScanEnd(loaded, config, rec.start + 1, 1,
                      loaded[rec.start + 1].file_from_offset)

\* the three equalities of C12 alone
C12_PositionsAgree == Finished => AllAtProcessOffset

\* C12 holds in non-duplication mode
C12_WithoutDuplication ==
    (Finished /\ ~config.duplication_enable) =>
        rec.process_offset =
            ScanEnd(loaded, config, rec.start + 1, 1,
                    loaded[rec.start + 1].file_from_offset)

(***************************************************************************)
(* Dispatch during recovery                                                *)
(***************************************************************************)

\* a step that is a run of recover_normally
NormalRun == rec'.runs = rec.runs + 1 /\ rec'.mode = "normal"

\* C13: recover_normally never calls dispatcher.dispatch: whatever the log
\* holds and whatever it scans (intact frames, sentinels, a failed frame), a run
\* adds no request to those the dispatcher was given.
C13_NormalRecoveryNeverDispatches == [][NormalRun => dispatched' = dispatched]_vars

\* a normal recovery read three frames, passed a sentinel and stopped at a
\* failed frame, and the dispatcher was given nothing
C13_Witness ==
    /\ rec.pc = "done" /\ rec.mode = "normal"
    /\ Len(loaded) = 2 /\ HasBlank(loaded[1])
    /\ rec.frames = 3 /\ rec.failed
    /\ dispatched = <<>>
\* the physical offsets of the requests the dispatcher was given, in order
DispatchedOffsets == [n \in 1..Len(dispatched) |-> dispatched[n].commit_log_offset]

RECURSIVE IntactOffsets(_, _, _, _)
\* the physical offsets of the intact frames a reader finds from record k of
\* segment i on, through sentinels, up to the first record that fails to decode
IntactOffsets(q, cfg, i, k) ==
    IF i > Len(q) THEN <<>>
    ELSE IF k > Len(q[i].data) THEN <<>>
    ELSE IF q[i].data[k].magic = "BLANK" THEN IntactOffsets(q, cfg, i + 1, 1)
    ELSE IF FailsToDecode(q[i].data[k], cfg) THEN <<>>
    ELSE <<q[i].file_from_offset + PosOf(q[i].data, k)>>
         \o IntactOffsets(q, cfg, i, k + 1)

\* the last segment of q ends in noise, and that noise is the first record from
\* segment i on that fails to decode
EndsInNoise(q, cfg, i) ==
    /\ Len(q) # 0
    /\ LET data == q[Len(q)].data
       IN  /\ Len(data) # 0
           /\ data[Len(data)].magic = "BAD"
           /\ FirstFailed(q, cfg, i, 1) =
                 q[Len(q)].file_from_offset + PosOf(data, Len(data))

\* what C14 says of the log and of the dispatcher after the recovery
DispatchedUpToNoise ==
    /\ DispatchedOffsets = IntactOffsets(loaded, config, rec.start + 1, 1)
    /\ Len(mapped_file_queue) = Len(loaded)
    /\ mapped_file_queue[Len(loaded)].wrote_position =
          FirstFailed(loaded, config, rec.start + 1, 1)
             - loaded[Len(loaded)].file_from_offset

\* C14: in non-duplication mode, recover_abnormally on a log whose last segment
\* ends in noise dispatches every intact frame from the start segment up to the
\* first undecodable position once, in physical-offset order, nothing for
\* sentinels or the noise, and leaves the last segment's wrote position at the
\* end of the last intact frame.
C14_TornTailTruncated ==
    ( /\ rec.mode = "abnormal" /\ rec.pc \in {"done", "panicked"}
      /\ ~config.duplication_enable
      /\ EndsInNoise(loaded, config, rec.start + 1) )
    => (rec.pc = "done" /\ DispatchedUpToNoise)

\* the same for the runs of recover_abnormally that return
C14_WhenRecoveryReturns ==
    ( /\ rec.mode = "abnormal" /\ rec.pc = "done"
      /\ ~config.duplication_enable
      /\ EndsInNoise(loaded, config, rec.start + 1) )
    => DispatchedUpToNoise
(***************************************************************************)
(* Where an abnormal recovery starts                                       *)
(***************************************************************************)

\* the first frame of segment f has a V1/V2 magic code, a store timestamp other
\* than 0 and one not later than the checkpoint's (min_timestamp_index when the
\* message index is enabled and safe, min_timestamp otherwise)
FirstFrameMatches(f, cfg, checkpoint) ==
    /\ Len(f.data) # 0
    /\ f.data[1].magic = "V1"
    /\ f.data[1].store_timestamp # 0
    /\ f.data[1].store_timestamp <=
          IF cfg.message_index_enable /\ cfg.message_index_safe
          THEN checkpoint.min_timestamp_index
          ELSE checkpoint.min_timestamp

\* the segments (counted from 0) whose first frame matches
Matching(q, cfg, checkpoint) ==
    {j \in 0..(Len(q) - 1) : FirstFrameMatches(q[j + 1], cfg, checkpoint)}

\* scenario S5: five segments whose first frames are stamped 10, 20, 30, 40 and
\* 50, the checkpoint's min_timestamp between those of segments 2 and 3,
\* non-duplication mode, after recover_abnormally
AfterS5 ==
    /\ loaded = load(DirectoryS5)
    /\ config = DefaultConfig
    /\ rec.mode = "abnormal" /\ rec.pc = "done"
    /\ rec.checkpoint.min_timestamp = 35

RECURSIVE ConfirmedOffsets(_, _, _, _, _)
\* of the intact frames a reader finds from record k of segment i on, the
\* physical offsets of those that end at or before confirm
ConfirmedOffsets(q, cfg, i, k, confirm) ==
    IF i > Len(q) THEN <<>>
    ELSE IF k > Len(q[i].data) THEN <<>>
    ELSE IF q[i].data[k].magic = "BLANK" THEN ConfirmedOffsets(q, cfg, i + 1, 1, confirm)
    ELSE IF FailsToDecode(q[i].data[k], cfg) THEN <<>>
    ELSE LET offset == q[i].file_from_offset + PosOf(q[i].data, k)
         IN  (IF offset + q[i].data[k].total_size <= confirm THEN <<offset>> ELSE <<>>)
             \o ConfirmedOffsets(q, cfg, i, k + 1, confirm)

\* a step that is a run of recover_abnormally in duplication mode, to its return
DuplicationRun ==
    /\ rec'.runs = rec.runs + 1 /\ rec'.mode = "abnormal" /\ rec'.pc = "done"
    /\ config.duplication_enable

\* the dispatcher is given the frames that end at or before the
\* confirm_phy_offset the checkpoint held when the recovery started
DispatchedUpToCheckpoint ==
    DispatchedOffsets' =
        ConfirmedOffsets(mapped_file_queue, config, rec'.start + 1, 1, store_checkpoint)

\* C16: in duplication mode recover_abnormally dispatches an intact frame
\* exactly when commitLogOffset + msgSize <= the confirm offset persisted in the
\* store checkpoint before the crash: no frame beyond it is dispatched and every
\* intact frame at or below it is.
C16_DispatchUpToPersistedConfirmOffset ==
    [][DuplicationRun => DispatchedUpToCheckpoint]_vars

\* the same when broker_config.duplication_enable is on as well, the
\* CommitLog's confirm_offset was set to the checkpoint's value before the run
\* and no frame of the log has properties
C16_WhenConfirmOffsetRestored ==
    [][(/\ DuplicationRun
        /\ config.broker_duplication_enable
        /\ confirm_offset = store_checkpoint
        /\ \A i \in 1..Len(loaded) : \A k \in 1..Len(loaded[i].data) :
              ~loaded[i].data[k].has_properties)
       => DispatchedUpToCheckpoint]_vars
(***************************************************************************)
(* Recovery without files                                                  *)
(***************************************************************************)

\* a step that is a run of either recovery on an empty segment list
RunWithoutFiles == rec'.runs = rec.runs + 1 /\ Len(mapped_file_queue) = 0

C17_EmptyListStep ==
    RunWithoutFiles =>
        /\ rec'.pc = "done"
        /\ flushed_where' = 0
        /\ committed_where' = 0
        /\ cq_calls' = << <<"destroy", 0>>, <<"load_after_destroy", 0>> >>
        /\ dispatched' = dispatched
        /\ confirm_offset' = confirm_offset
        /\ store_checkpoint' = store_checkpoint
        /\ mapped_file_queue' = mapped_file_queue

\* C17: on an empty segment list recover_normally and recover_abnormally both
\* set flushedWhere and committedWhere to 0, call destroy and then
\* load_after_destroy on the consume-queue store, dispatch nothing and leave the
\* confirm offset and the checkpoint as they were.
C17_EmptyListRecovery == [][C17_EmptyListStep]_vars

\* recover_abnormally has run on an empty directory of a broker in duplication
\* mode whose checkpoint held confirm_phy_offset 700: both are still there
C17_Witness ==
    /\ rec.pc = "done" /\ rec.mode = "abnormal"
    /\ loaded = <<>>
    /\ config.duplication_enable
    /\ cq_calls = << <<"destroy", 0>>, <<"load_after_destroy", 0>> >>
    /\ store_checkpoint = 700 /\ confirm_offset = 700
    /\ flushed_where = 0 /\ committed_where = 0
    /\ dispatched = <<>>
(***************************************************************************)
(* The decoder and roll_next_file                                          *)
(***************************************************************************)

\* the decoder has returned from a call with check_crc and read_body on, on an
\* encoder-produced frame with a body whose bytes were altered
DecodedAltered ==
    /\ call.op = "check_message_and_return_size" /\ call.done
    /\ call.bytes.has_body /\ call.altered
    /\ call.check_crc /\ call.read_body

\* success = false and msg_size = -1
Rejected == ~call.request.success /\ call.request.msg_size = -1

\* C18 as stated: for every encoder-produced frame with a non-empty body and
\* every store configuration, when the body bytes no longer have the CRC32
\* stored as bodyCrc, check_message_and_return_size with check_crc and
\* read_body on returns success = false and msg_size = -1.
C18_AlteredBodyRejected == DecodedAltered => Rejected

\* C18, amended: the same for every store configuration whose
\* force_verify_prop_crc is off.
C18_AlteredBodyRejectedUnlessDeferred ==
    (DecodedAltered /\ ~config.force_verify_prop_crc) => Rejected

\* an altered frame was decoded with the CRC compared, and was rejected
C18_Witness ==
    /\ DecodedAltered
    /\ ~config.force_verify_prop_crc
    /\ Rejected

\* with force_verify_prop_crc on the altered frame is accepted
C18_AcceptedWhenDeferred ==
    (DecodedAltered /\ config.force_verify_prop_crc /\ ~call.check_dup_info)
        => (call.request.success /\ call.request.msg_size = call.bytes.total_size)
\* the decoder has returned from a call on the frame encoded from a valid
\* message, its bytes as the encoder wrote them, DUP_INFO not asked for
DecodedEncoded ==
    /\ call.op = "check_message_and_return_size" /\ call.done
    /\ ~call.altered /\ ~call.check_dup_info

\* success, msg_size and the fields read from the frame's fixed part and topic
FixedFieldsRoundTrip ==
    /\ call.request.success
    /\ call.request.msg_size = call.bytes.total_size
    /\ call.request.msg_size = call.msg.size
    /\ call.request.key = call.msg.key
    /\ call.request.tran = call.msg.tran
    /\ call.request.consume_queue_offset = call.msg.queue_offset
    /\ call.request.store_timestamp = call.msg.store_timestamp

\* C19: for every valid message m, decoding the frame encoded from m succeeds
\* with msg_size the encoded length, with topic, queue id, sys_flag,
\* queue offset and store timestamp equal to m's, and with a properties_map
\* equal to the properties of m.
C19_FrameRoundTrip ==
    DecodedEncoded =>
        /\ FixedFieldsRoundTrip
        /\ call.request.properties_map = call.msg.inner_num

\* everything but the properties does come back
C19_FixedFieldsRoundTrip == DecodedEncoded => FixedFieldsRoundTrip

\* no property of the message ever comes back
C19_PropertiesLost == DecodedEncoded => call.request.properties_map = NoInnerNum

\* a roll_next_file call has returned
Rolled == call.op = "roll_next_file" /\ call.done

\* C20: for every offset >= 0 and mapped_file_size > 0 with
\* offset + mapped_file_size inside the i64 range, roll_next_file(offset) is a
\* multiple of mapped_file_size, is greater than offset, and exceeds offset by
\* at most mapped_file_size.
C20_RollNextFile ==
    Rolled =>
        /\ call.result % call.mapped_file_size = 0
        /\ call.result > call.offset
        /\ call.result <= call.offset + call.mapped_file_size

\* roll_next_file was called on the last byte of the second file, on the start
\* of a file, and on the largest offset that fits
C20_Witness ==
    /\ Rolled
    /\ call.mapped_file_size = FileSize
    /\ \/ call.offset = 2 * FileSize - 1 /\ call.result = 2 * FileSize
       \/ call.offset = FileSize /\ call.result = 2 * FileSize
(***************************************************************************)
(* put_message under every configuration                                   *)
(***************************************************************************)

\* HA handling is required of a non-duplication SYNC_MASTER (for the messages
\* that wait for the store), and the mode it would run in is not implemented
HaRequiredButUnimplemented(cfg) ==
    /\ ~cfg.duplication_enable
    /\ cfg.broker_role = "SyncMaster"
    /\ cfg.enable_controller_mode \/ cfg.enable_slave_acting_master

\* C21: a configuration in which HA handling is required together with
\* controller mode or slave-acting-master is rejected at start-up, so no
\* put_message call is started under it, and no put_message call ever panics:
\* every call that starts returns a result.
C21_NoPutPanics ==
    /\ HaRequiredButUnimplemented(config) => puts = 0
    /\ \A w \in Writers : writer[w].pc # "panicked"

\* a put_message call panics exactly when the configuration is such a one and
\* the message waits for the store
C21_PanicsOnlyWhenHaRequired ==
    \A w \in Writers :
        writer[w].pc = "panicked" <=>
            /\ writer[w].pc # "idle"
            /\ HaRequiredButUnimplemented(config)
            /\ writer[w].msg.wait_store_msg_ok

\* C26 as stated: assign_queue_offset is called only in non-duplication mode
\* and only for non-transactional and transaction-commit messages; with
\* duplication enabled, whatever the broker role, no queue offset is assigned.
C26_AssignedOnlyWithoutDuplication ==
    \A w \in Writers :
        writer[w].assigned =>
            /\ ~config.duplication_enable
            /\ IsNotOrCommit(writer[w].msg.tran)

\* C26, amended: assign_queue_offset is called only when duplication is
\* disabled or the broker is a slave, and only for non-transactional and
\* transaction-commit messages; with duplication enabled on a broker that is
\* not a slave no queue offset is assigned.
C26_AssignedUnlessDuplicatingMaster ==
    \A w \in Writers :
        writer[w].assigned =>
            /\ ~config.duplication_enable \/ config.broker_role = "Slave"
            /\ IsNotOrCommit(writer[w].msg.tran)

\* a duplicating slave assigned a queue offset, from a counter that had moved
C26_Witness ==
    /\ config.duplication_enable /\ config.broker_role = "Slave"
    /\ \E w \in Writers :
          /\ writer[w].assigned
          /\ writer[w].msg.tran = "TRANSACTION_COMMIT_TYPE"
          /\ writer[w].msg.queue_offset > 0

\* every call for a non-transactional or commit message outside duplication
\* mode does get its queue offset
C26_AssignedWhenDue ==
    \A w \in Writers :
        (/\ writer[w].pc \notin {"idle", "panicked"}
         /\ need_assign_offset(config)
         /\ IsNotOrCommit(writer[w].msg.tran)) => writer[w].assigned
(***************************************************************************)
(* put_message: time, suspension and the put lock                          *)
(***************************************************************************)

\* the frames of the segment list, in physical-offset order
StoredFrames ==
    { f \in UNION { { mapped_file_queue[i].data[k] : k \in 1..Len(mapped_file_queue[i].data) } :
                    i \in 1..Len(mapped_file_queue) } : f.magic = "V1" }

\* C22: in non-duplication mode, with a clock that never goes back, the
\* store_timestamp of the accepted frames does not decrease in physical-offset
\* order, whatever the interleaving of the writers: a frame carries the time
\* stamped while its writer held the put lock.
C22_StoreTimestampMonotonic ==
    ~config.duplication_enable =>
        /\ \A f \in StoredFrames, g \in StoredFrames :
              f.physic_offset < g.physic_offset => f.store_timestamp <= g.store_timestamp
        /\ \A n \in 1..Len(accepted) :
              \E f \in StoredFrames :
                  /\ f.physic_offset = accepted[n].physic_offset
                  /\ f.store_timestamp = accepted[n].store_timestamp
        /\ \A w \in Writers :
              put_message_lock = w /\ writer[w].appends > 0 =>
                  writer[w].msg.store_timestamp <= clock

\* a writer stamped before the lock waits for it, and the frame another writer
\* appended meanwhile carries a later time than that stamp
C22_Witness ==
    \E v \in Writers, f \in StoredFrames :
        /\ writer[v].pc = "wait_lock"
        /\ accepted # <<>>
        /\ accepted[Len(accepted)].w # v
        /\ f.physic_offset = accepted[Len(accepted)].physic_offset
        /\ writer[v].msg.store_timestamp < f.store_timestamp
        /\ f.store_timestamp < clock

\* the future of w's put_message is dropped in this step
Dropped(w) == writer[w].status # "Cancelled" /\ writer'[w].status = "Cancelled"

\* the frame of w's running call is in the log
FrameWritten(w) ==
    \E n \in 1..Len(accepted) :
        /\ accepted[n].w = w
        /\ accepted[n].store_timestamp = writer[w].msg.store_timestamp
        /\ accepted[n].queue_offset = writer[w].msg.queue_offset
        /\ Stored(accepted[n])

\* C23: put_message is suspended, and so can be dropped, only while it waits
\* for the put lock and in the flush/HA call after the append. Dropped at the
\* first, no frame of the call was written and the call does not hold the lock;
\* dropped at the second, the frame is written, the lock is released and the
\* counter of the queue has been advanced for the frame. The call is never
\* dropped while it holds the put lock, and dropping it changes nothing of the
\* log.
C23_DropStep ==
    \A w \in Writers :
        /\ Dropped(w) =>
              /\ writer[w].pc \in {"wait_lock", "flush"}
              /\ put_message_lock # w
              /\ put_message_lock' = put_message_lock
              /\ UNCHANGED <<mapped_file_queue, consume_queue_store, accepted>>
              /\ writer[w].pc = "wait_lock" =>
                    /\ writer[w].appends = 0
                    /\ \A n \in 1..Len(accepted) : Stored(accepted[n])
              /\ writer[w].pc = "flush" =>
                    /\ writer[w].status = "PutOk"
                    /\ FrameWritten(w)
        /\ Went(w, "post", "flush") =>
              /\ put_message_lock # w
              /\ IsNotOrCommit(writer[w].msg.tran) =>
                    consume_queue_store'[writer[w].msg.key] =
                        consume_queue_store[writer[w].msg.key] + Units(writer[w].msg)

C23_DropLeavesLogConsistent == [][C23_DropStep]_vars

\* one call was dropped in the flush/HA call with its frame in the log, while
\* the other writer waits for the lock it is about to be dropped at
C23_Witness ==
    \E w \in Writers, v \in Writers :
        /\ writer[w].pc = "idle" /\ writer[w].status = "Cancelled"
        /\ writer[w].appends = 2
        /\ writer[v].pc = "wait_lock"
        /\ put_message_lock = "free"

\* w is between put_message_lock.lock().await and drop(lock)
InCriticalSection(w) == writer[w].pc \in {"locked", "roll", "unlock"}

\* C24: at most one put_message call at a time is in the critical section:
\* while a call is there, with the segment it selected or created, its append
\* or its retry after EndOfFile, no other call is, and no other call changes
\* the segment list.
C24_CriticalSectionStep ==
    \A w \in Writers :
        InCriticalSection(w) =>
            /\ put_message_lock = w
            /\ \A v \in Writers \ {w} :
                  /\ ~InCriticalSection(v)
                  /\ writer'[v].pc \notin {"locked", "roll", "unlock"}
                  /\ writer'[v] # writer[v] => mapped_file_queue' = mapped_file_queue

C24_OneCallInCriticalSection == [][C24_CriticalSectionStep]_vars

\* a call is about to retry after EndOfFile while the other writer, which
\* looked up the same segment before the lock, waits
C24_Witness ==
    \E w \in Writers, v \in Writers :
        /\ writer[w].pc = "roll"
        /\ writer[v].pc = "wait_lock"
        /\ writer[v].mapped_file = writer[w].mapped_file

\* the step in which w's put_message encodes its frame
Encodes(w) == puts' = puts + 1 /\ writer'[w] # writer[w]

\* the step in which w's put_message obtains a segment or runs the callback
Appends(w) ==
    \/ writer'[w].appends > writer[w].appends
    \/ writer'[w] # writer[w] /\ mapped_file_queue' # mapped_file_queue

\* C25 as stated: the put lock is held by the calling writer during the whole
\* of frame encoding, segment rollover and the append callback; no step of
\* encoding happens while the caller does not hold the lock.
C25_LockHeldStep ==
    \A w \in Writers : (Encodes(w) \/ Appends(w)) => put_message_lock = w

C25_LockHeldAppendStep ==
    \A w \in Writers :
        /\ Appends(w) => put_message_lock = w
        /\ writer'[w].pc = "roll" => put_message_lock' = w
        /\ Encodes(w) => put_message_lock # w

C27_RetryStep ==
    \A w \in Writers :
        /\ writer'[w].appends \in {0, 1, 2}
        /\ writer'[w].appends > writer[w].appends =>
              writer'[w].appends = writer[w].appends + 1
        /\ (writer[w].appends = 1 /\ writer'[w].appends = 2) =>
              /\ writer[w].result = "EndOfFile"
              /\ writer'[w].mapped_file = Len(mapped_file_queue) + 1
              /\ writer'[w].mapped_file # writer[w].mapped_file
              /\ Len(mapped_file_queue') = Len(mapped_file_queue) + 1
              /\ writer'[w].pc = "unlock"
              /\ writer'[w].status \in {"PutOk", "UnknownError"}
              /\ writer'[w].status = "PutOk" <=> writer'[w].result = "PutOk"
        /\ (writer[w].appends = 1 /\ writer[w].result # "EndOfFile") =>
              writer'[w].appends \in {0, 1}
        /\ (writer[w].appends = 2 /\ writer'[w].appends = 2) =>
              /\ writer[w].pc \in {"unlock", "post", "idle"}
              /\ writer'[w].pc \in {"unlock", "post", "idle"}

C27_AtMostOneRetry == [][C27_RetryStep]_vars

\* the callback ran twice and the second run failed: the call is on its way out
C27_Witness ==
    \E w \in Writers :
        /\ writer[w].appends = 2
        /\ writer[w].result = "UnknownError"
        /\ writer[w].status = "UnknownError"
        /\ writer[w].pc = "post"
        /\ put_message_lock = "free"

\* C30: a put_message call holds the put lock only between its acquisition and
\* drop(lock): on every result path (PutOk, MessageIllegal, UnknownError,
\* CreateMappedFileFailed before the first append and after EndOfFile) it has
\* released the lock when it returns or awaits the flush/HA collaborator; so,
\* under fair scheduling, every writer that waits for the put lock gets it.
C30_LockReleasedOnEveryPath ==
    /\ [](\A w \in Writers : put_message_lock = w => InCriticalSection(w))
    /\ [](put_message_lock = "free" => \A w \in Writers : ~InCriticalSection(w))
    /\ \A w \in Writers : (writer[w].pc = "wait_lock") ~> (writer[w].pc = "locked")

\* a call returned CreateMappedFileFailed after an EndOfFile, and the writer
\* that waited meanwhile holds the lock
C30_Witness ==
    \E w \in Writers, v \in Writers :
        /\ writer[w].pc = "idle" /\ writer[w].status = "CreateMappedFileFailed"
        /\ writer[w].result = "EndOfFile"
        /\ writer[v].pc = "locked" /\ put_message_lock = v
        /\ writer[v].mapped_file = Len(mapped_file_queue)

(***************************************************************************)
(* The recoveries: the index truncation and the start of the scan          *)
(***************************************************************************)

\* the one call truncate_dirty_logic_files(process_offset) was made to the index
TruncatedIndex ==
    cq_calls = << <<"truncate_dirty_logic_files", AsI64(rec.process_offset)>> >>

\* C28: at the end of either recovery of a log with segments,
\* truncate_dirty_logic_files(process_offset) is called if and only if
\* max_phy_offset_of_consume_queue >= process_offset as signed integers; it is
\* not called when max_phy_offset_of_consume_queue is negative (-1, an index
\* with no entry).
C28_TruncatesIndexIffSignedAtLeast ==
    Finished =>
        /\ TruncatedIndex <=>
              rec.max_phy_offset_of_consume_queue >= AsI64(rec.process_offset)
        /\ ~TruncatedIndex => cq_calls = <<>>
        /\ rec.max_phy_offset_of_consume_queue < 0 => cq_calls = <<>>

\* what the recoveries do: the comparison is made on the unsigned values, so an
\* index that reports -1 is always truncated
C28_TruncatesIndexIffUnsignedAtLeast ==
    Finished =>
        /\ TruncatedIndex <=>
              AsU64(rec.max_phy_offset_of_consume_queue) >= rec.process_offset
        /\ ~TruncatedIndex => cq_calls = <<>>
        /\ rec.max_phy_offset_of_consume_queue < 0 => TruncatedIndex

\* for an index that reports no negative offset the two comparisons agree
C28_SignedWhenNotNegative ==
    (Finished /\ rec.max_phy_offset_of_consume_queue >= 0) =>
        (TruncatedIndex <=>
            rec.max_phy_offset_of_consume_queue >= AsI64(rec.process_offset))

RECURSIVE NormalScanEnd(_, _, _, _)
\* the physical offset at which a scan of q that reads record k of segment i
\* next comes to its end: at the first record that fails to decode, at the
\* sentinel of the last segment, or where the records end; the sentinel of any
\* other segment sends it to the first record of the next
NormalScanEnd(q, cfg, i, k) ==
    IF k > Len(q[i].data) THEN q[i].file_from_offset + PosOf(q[i].data, k)
    ELSE IF q[i].data[k].magic = "BLANK"
    THEN IF i = Len(q)
         THEN q[i].file_from_offset + PosOf(q[i].data, k)
         ELSE NormalScanEnd(q, cfg, i + 1, 1)
    ELSE IF FailsToDecode(q[i].data[k], cfg)
    THEN q[i].file_from_offset + PosOf(q[i].data, k)
    ELSE NormalScanEnd(q, cfg, i, k + 1)

\* the frames of q in the segments after the first `before`, below offset P
FramesFrom(q, before, P) ==
    { <<i, k>> \in (before + 1..Len(q)) \X (1..4) :
         /\ k <= Len(q[i].data)
         /\ q[i].data[k].magic = "V1"
         /\ q[i].file_from_offset + PosOf(q[i].data, k) < P }

\* C29: recover_normally begins its scan at position 0 of the segment with
\* index max(0, segment count - 3); the segments before it are not decoded and
\* none of their bytes is truncated; a BLANK sentinel decoded in a segment that
\* is not the last sends the scan to position 0 of the next segment.
C29_ScanStartsAtThirdLast ==
    (rec.mode = "normal" /\ rec.pc = "done" /\ loaded # <<>>) =>
        LET start == IF Len(loaded) - 3 > 0 THEN Len(loaded) - 3 ELSE 0
        IN  /\ rec.start = start
            /\ rec.process_offset = NormalScanEnd(loaded, config, start + 1, 1)
            /\ rec.frames = Cardinality(FramesFrom(loaded, start, rec.process_offset))
            /\ \A i \in 1..start :
                  /\ i <= Len(mapped_file_queue)
                  /\ mapped_file_queue[i] = loaded[i]
            /\ \A i \in (start + 1)..(Len(loaded) - 1) : \A k \in 1..Len(loaded[i].data) :
                  (/\ loaded[i].data[k].magic = "BLANK"
                   /\ rec.process_offset >= loaded[i].file_from_offset
                                               + PosOf(loaded[i].data, k))
                  => rec.process_offset >= loaded[i + 1].file_from_offset

\* five segments, the first with a frame that does not decode: the scan began
\* at the third, went through three sentinels and ended after the frame of the
\* fifth, and the first two segments are as they were loaded
C29_Witness ==
    /\ rec.mode = "normal" /\ rec.pc = "done"
    /\ Len(loaded) = 5 /\ rec.start = 2
    /\ loaded[1].data # <<>>
    /\ FailsToDecode(loaded[1].data[1], config)
    /\ rec.frames = 7
    /\ rec.process_offset = 4 * FileSize + 400
    /\ mapped_file_queue[1] = loaded[1] /\ mapped_file_queue[2] = loaded[2]

(***************************************************************************)
(* The recoveries terminate                                                *)
(***************************************************************************)

\* a recovery has returned or panicked
Returned == rec.pc \in {"done", "panicked"}

\* a pass of the loop is made in this step
Passes == InScan /\ call' # NoCall /\ call'.passes = call.passes + 1

\* what is left to scan with the locals s: the segments after the one being
\* read, and the bytes of that one after the cursor
Remaining(s) ==
    (Len(mapped_file_queue) - s.index) * (FileSize + 1) + (FileSize - s.current_pos)

\* nothing more can be read in the last segment at the cursor of s: its
\* sentinel comes next, or no record
Exhausted(s) ==
    /\ s.index = Len(mapped_file_queue)
    /\ LET data == mapped_file_queue[s.index].data
           k == EntryAt(data, s.current_pos)
       IN  k = 0 \/ data[k].magic = "BLANK"

\* C31: recover_normally and recover_abnormally terminate on every segment
\* list and every segment content. Each pass of the scan loop advances the
\* cursor in the segment by a size that is positive, or moves to position 0 of
\* the next segment, or leaves the loop (by break, or by the panic of the
\* decoder); what is left to scan gets smaller with every pass that goes on;
\* the loop is left once the last segment is exhausted; and every recovery
\* that began comes to its end.
C31_PassStep ==
    Passes =>
        LET s == call.s
            t == call'.s
        IN  /\ \/ /\ t.outcome = "loop"
                  /\ t.index = s.index
                  /\ t.current_pos > s.current_pos
                  /\ t.current_pos <= FileSize
               \/ /\ t.outcome = "loop"
                  /\ t.index = s.index + 1
                  /\ t.index <= Len(mapped_file_queue)
                  /\ t.current_pos = 0
               \/ t.outcome \in {"break", "panic"}
            /\ t.outcome = "loop" =>
                  /\ Remaining(t) < Remaining(s)
                  /\ Remaining(t) >= 0
            /\ Exhausted(s) => t.outcome = "break"

C31_RecoveriesTerminate ==
    /\ [][C31_PassStep]_vars
    /\ <>Returned

\* recover_normally on scenario S5's five segments is about to return: it
\* began at the third, made ten passes (three frames and a sentinel in each of
\* two segments, a frame and the end of the records in the last) and broke at
\* position 400 of the fifth
C31_Witness ==
    /\ InScan
    /\ call.op = "recover_normally"
    /\ Len(mapped_file_queue) = 5
    /\ call.start = 2
    /\ call.passes = 10
    /\ call.s.outcome = "break"
    /\ call.s.index = 5 /\ call.s.current_pos = 400

\* the run of the decoder's panic: the loop is left by it, in the pass that
\* reads the frame cut in its body
C31_WitnessPanic ==
    /\ InScan
    /\ call.s.outcome = "panic"
    /\ call.passes = 2

\* the passes, one at a time, come to what the recovery as one step comes to
C31_ReturnStep ==
    (InScan /\ call' = NoCall) =>
        LET r == IF call.op = "recover_normally"
                 THEN recover_normally(Self, call.max_phy_offset_of_consume_queue)
                 ELSE recover_abnormally(Self, call.max_phy_offset_of_consume_queue,
                                         call.checkpoint)
        IN  /\ mapped_file_queue' = r.mapped_file_queue
            /\ flushed_where' = r.flushed_where
            /\ committed_where' = r.committed_where
            /\ confirm_offset' = r.confirm_offset
            /\ store_checkpoint' = r.store_checkpoint
            /\ dispatched' = r.dispatched
            /\ cq_calls' = r.cq_calls
            /\ rec'.process_offset = r.process_offset
            /\ rec'.last_valid_msg_phy_offset = r.last_valid_msg_phy_offset
            /\ rec'.frames = r.frames
            /\ rec'.failed = r.failed
            /\ rec'.start = r.start
            /\ (rec'.pc = "panicked") = r.panicked

C31_PassesAreTheRun == [][C31_ReturnStep]_vars
====
